---- MODULE Spec2Model ----
(***************************************************************************)
(* meal.mind: the expiry-aware inventory and recommendation pipeline.      *)
(*                                                                         *)
(* Time is counted in hours.  A Date is an instant (hours since an epoch   *)
(* that falls on a local midnight); the device's time zone tells which     *)
(* local calendar day an instant belongs to.  Dates are stored as ISO      *)
(* strings (toISOString), which new Date(...) reads back as the same       *)
(* instant.                                                                *)
(***************************************************************************)
EXTENDS Integers, Sequences, FiniteSets

VARIABLES
    tz,             \* the device's time zone: [shift, day]
    now,            \* the current instant (new Date(), Date.now())
    expiryDate,     \* SpecExpiry: the expiry date under classification
    status,         \* SpecExpiry: result of getExpiryStatus, "none" before the call
    days,           \* SpecExpiry: result of getDaysUntilExpiry
    products,       \* SpecInventory: the Product[] handed to the helpers
    sorted,         \* SpecInventory: result of sortProductsByExpiry
    expiring,       \* SpecInventory: result of getExpiringProducts
    withinDays,     \* SpecInventory: the days argument of getExpiringProducts
    request,        \* the request generateRecipeWithGemini built, if any
    result,         \* what generateRecipeWithGemini returned or threw
    op,             \* the operation that produced the current state
    history,        \* storage: the recipe history, most recent first
    savedRecipes,   \* storage: the saved recipes, most recent first
    arg,            \* the recipe id the last storage call was given
    threw,          \* whether the last storage call rejected
    nextId,         \* ids generateId has handed out so far, plus one
    calls,          \* storage calls made so far in this session
    stats,          \* storage: the user statistics (NoStats when never written)
    storedProducts, \* storage: the inventory
    screenProducts, \* GenerateRecipeScreen: products (useProducts state)
    loaded,         \* GenerateRecipeScreen: the load started on mount has finished
    selectedIds,    \* GenerateRecipeScreen: selectedIds
    toggled,        \* GenerateRecipeScreen: the user has changed the selection
    servings,       \* GenerateRecipeScreen: servings
    apiKey,         \* ApiKeyContext: apiKey
    isGenerating,   \* GenerateRecipeScreen: isGenerating
    sent,           \* the products handleGenerate passed to generateRecipeWithGemini
    alert,          \* the last Alert shown, "none" if none
    navigated,      \* navigation.replace("RecipeDetail") has happened
    taps,           \* taps on the screen's controls so far
    faults,         \* storage failures met by handleGenerate so far
    parts,          \* SpecResponse: the pieces the collaborator's text is made of
    parsed,         \* the object JSON.parse made of the collaborator's answer
    guest,          \* guest menu: guestCount and budget of the request
    menu,           \* guest menu: what generateGuestMenuWithGemini returned
    shoppingList,   \* storage: the shopping list
    pendingAdds,    \* addItem / addItems calls that are under way
    ownItems,       \* items added by hand or from a recipe so far
    presence,       \* the generating screen: "focused", "blurred" or "unmounted"
    screens,        \* ChatScreen.messages, ChefChatScreen.messages, GuestMenuScreen.menu
    mealPlan,       \* MealPlanScreen: the week plan and the generations under way
    storedKey,      \* storage: the key under @mealmind/gemini_api_key, "" if none
    builtInKey,     \* ApiKeyContext: BUILT_IN_API_KEY, "" if the build has none
    form            \* AddProductScreen: the product being edited and its fields

vars == <<tz, now, expiryDate, status, days, products, sorted, expiring,
          withinDays, request, result, op, history, savedRecipes, arg, threw,
          nextId, calls, stats, storedProducts, screenProducts, loaded,
          selectedIds, toggled, servings, apiKey, isGenerating, sent, alert,
          navigated, taps, faults, parts, parsed, guest, menu, shoppingList,
          pendingAdds, ownItems, presence, screens, mealPlan, storedKey,
          builtInKey, form>>

expiryVars == <<expiryDate, status, days>>
inventoryVars == <<products, sorted, expiring, withinDays>>
storageVars == <<history, savedRecipes, arg, threw, nextId, calls, stats>>
screenVars == <<storedProducts, screenProducts, loaded, selectedIds, toggled,
                servings, apiKey, isGenerating, sent, alert, navigated, taps,
                faults>>
guestVars == <<guest, menu, shoppingList, pendingAdds, ownItems>>
otherVars == <<mealPlan, storedKey, builtInKey, form>>

----------------------------------------------------------------------------
(* Bounds of the model *)

PastDays == 2       \* expiry dates reach this many days before day 0
MaxDay == 9         \* ... and this many days after it
MaxProducts == 3    \* longest product list handed to the helpers

(* Program constants *)

HoursPerDay == 24       \* 1000 * 60 * 60 * 24 ms
CriticalDays == 3
WarningDays == 7

----------------------------------------------------------------------------
(* Local time.  A zone either keeps one offset (shift = 0) or changes its  *)
(* offset once, during local day `day`: with shift = 1 that day lasts 25   *)
(* hours (clocks set back), with shift = -1 it lasts 23 hours.             *)

Days == (0 - PastDays)..MaxDay

TimeZones ==
    {[shift |-> 0, day |-> 0]} \cup [shift : {-1, 1}, day : Days]

\* The instant at which local day d starts.
Midnight(z, d) == HoursPerDay * d + (IF d > z.day THEN z.shift ELSE 0)

\* The local calendar day of instant t.
DayOf(z, t) ==
    CHOOSE d \in (0 - PastDays - 2)..(MaxDay + 2) :
        Midnight(z, d) <= t /\ t < Midnight(z, d + 1)

\* date.setHours(0, 0, 0, 0); date.getTime()
setHours0(z, t) == Midnight(z, DayOf(z, t))

\* Math.ceil(a / b) for b > 0
Ceil(a, b) == 0 - ((0 - a) \div b)

TimesOfDay == {0, HoursPerDay \div 2, HoursPerDay - 1}

ExpiryInstants == {HoursPerDay * d + h : d \in Days, h \in TimesOfDay}

NowInstants == {HoursPerDay * d + h : d \in 0..1, h \in TimesOfDay}

----------------------------------------------------------------------------
(* Expiry classifier *)

getDaysUntilExpiry(z, expiry, today) ==
    LET diffTime == setHours0(z, expiry) - setHours0(z, today)
    IN  Ceil(diffTime, HoursPerDay)

\* getExpiryStatus with the first threshold read as "fewer than 3 days".
getExpiryStatus_strict(z, expiry, today) ==
    LET diffTime == setHours0(z, expiry) - setHours0(z, today)
        diffDays == Ceil(diffTime, HoursPerDay)
    IN  IF diffDays < CriticalDays THEN "critical"
        ELSE IF diffDays <= WarningDays THEN "warning"
        ELSE "fresh"

getExpiryStatus(z, expiry, today) ==
    LET diffTime == setHours0(z, expiry) - setHours0(z, today)
        diffDays == Ceil(diffTime, HoursPerDay)
    IN  IF diffDays <= CriticalDays THEN "critical"
        ELSE IF diffDays <= WarningDays THEN "warning"
        ELSE "fresh"

----------------------------------------------------------------------------
(* SpecExpiry: one expiry date, classified at a moving current time *)

NoRequest == [kind |-> "none"]
NoResult == [kind |-> "none"]
NoStats == [present |-> FALSE]
NoParts == [pre |-> <<>>, obj |-> <<>>, post |-> <<>>]
DefaultServings == 4
NoParsed == [kind |-> "none"]
NoGuest == [guestCount |-> 6, budget |-> "standard"]
NoMenu == [kind |-> "none"]
NoScreens == [chat |-> <<>>, chef |-> <<>>, guestMenu |-> NoMenu]

NoMealPlan == [kind |-> "none"]
NoForm == [kind |-> "none"]

OtherIdle ==
    /\ mealPlan = NoMealPlan
    /\ storedKey = ""
    /\ builtInKey = ""
    /\ form = NoForm

GuestIdle ==
    /\ guest = NoGuest
    /\ menu = NoMenu
    /\ shoppingList = <<>>
    /\ pendingAdds = <<>>
    /\ ownItems = 0

InventoryIdle ==
    /\ products = <<>>
    /\ sorted = <<>>
    /\ expiring = <<>>
    /\ withinDays = CriticalDays
    /\ request = NoRequest
    /\ result = NoResult

ScreenIdle ==
    /\ storedProducts = <<>>
    /\ screenProducts = <<>>
    /\ loaded = FALSE
    /\ selectedIds = {}
    /\ toggled = FALSE
    /\ servings = DefaultServings
    /\ apiKey = ""
    /\ isGenerating = FALSE
    /\ sent = <<>>
    /\ alert = "none"
    /\ navigated = FALSE
    /\ taps = 0
    /\ faults = 0
    /\ parts = NoParts
    /\ parsed = NoParsed
    /\ GuestIdle
    /\ presence = "focused"
    /\ screens = NoScreens /\ OtherIdle

StorageIdle ==
    /\ stats = NoStats
    /\ history = <<>>
    /\ savedRecipes = <<>>
    /\ arg = 0
    /\ threw = FALSE
    /\ nextId = 1
    /\ calls = 0

InitExpiry ==
    /\ StorageIdle
    /\ ScreenIdle
    /\ tz \in TimeZones
    /\ now \in NowInstants
    /\ expiryDate \in ExpiryInstants
    /\ status = "none"
    /\ days = 0
    /\ op = "init"
    /\ InventoryIdle

\* A caller (a product card) asks for the tier and the countdown.
Classify ==
    /\ status' = getExpiryStatus(tz, expiryDate, now)
    /\ days' = getDaysUntilExpiry(tz, expiryDate, now)
    /\ op' = "classify"
    /\ UNCHANGED <<otherVars, tz, now, expiryDate, inventoryVars, request, result,
                   storageVars, screenVars, parts,
                   parsed, guestVars, presence, screens>>

\* Time passes and the card is rendered again.
ClockAdvance ==
    /\ status # "none"
    /\ \E t \in NowInstants :
        /\ t > now
        /\ now' = t
        /\ status' = getExpiryStatus(tz, expiryDate, t)
        /\ days' = getDaysUntilExpiry(tz, expiryDate, t)
    /\ op' = "clock"
    /\ UNCHANGED <<otherVars, tz, expiryDate, inventoryVars, request, result,
                   storageVars, screenVars, parts,
                   parsed, guestVars, presence, screens>>

\* The product is edited to another expiry date and rendered again.
ChangeExpiry ==
    /\ status # "none"
    /\ \E e \in ExpiryInstants :
        /\ e # expiryDate
        /\ expiryDate' = e
        /\ status' = getExpiryStatus(tz, e, now)
        /\ days' = getDaysUntilExpiry(tz, e, now)
    /\ op' = "edit"
    /\ UNCHANGED <<otherVars, tz, now, inventoryVars, request, result, storageVars,
                   screenVars, parts,
                   parsed, guestVars, presence, screens>>

NextExpiry == Classify \/ ClockAdvance \/ ChangeExpiry

SpecExpiry == InitExpiry /\ [][NextExpiry]_vars

C2_CalendarDays ==
    status # "none" => days = DayOf(tz, expiryDate) - DayOf(tz, now)

----------------------------------------------------------------------------
(* Inventory ranker *)

\* Where Array.prototype.sort puts p among the already ordered s: behind
\* every element that does not compare greater (the sort is stable).
InsertByExpiry(z, today, p, s) ==
    LET daysA == getDaysUntilExpiry(z, p.expiryDate, today)
        n == Cardinality({i \in 1..Len(s) :
                getDaysUntilExpiry(z, s[i].expiryDate, today) - daysA <= 0})
    IN  SubSeq(s, 1, n) \o <<p>> \o SubSeq(s, n + 1, Len(s))

\* The same with equal elements put in front (an unstable sort).
InsertByExpiry_front(z, today, p, s) ==
    LET daysA == getDaysUntilExpiry(z, p.expiryDate, today)
        n == Cardinality({i \in 1..Len(s) :
                getDaysUntilExpiry(z, s[i].expiryDate, today) - daysA < 0})
    IN  SubSeq(s, 1, n) \o <<p>> \o SubSeq(s, n + 1, Len(s))

RECURSIVE sortProductsByExpiry_unstable(_, _, _)
sortProductsByExpiry_unstable(z, ps, today) ==
    IF ps = <<>> THEN <<>>
    ELSE InsertByExpiry_front(z, today, ps[Len(ps)],
            sortProductsByExpiry_unstable(z, SubSeq(ps, 1, Len(ps) - 1), today))

\* [...products].sort((a, b) => daysA - daysB)
RECURSIVE sortProductsByExpiry(_, _, _)
sortProductsByExpiry(z, ps, today) ==
    IF ps = <<>> THEN <<>>
    ELSE InsertByExpiry(z, today, ps[Len(ps)],
            sortProductsByExpiry(z, SubSeq(ps, 1, Len(ps) - 1), today))

\* getExpiringProducts without the lower limit.
getExpiringProducts_overdue(z, ps, n, today) ==
    LET Keep(p) == getDaysUntilExpiry(z, p.expiryDate, today) <= n
    IN  SelectSeq(ps, Keep)

getExpiringProducts(z, ps, n, today) ==
    LET Keep(p) ==
            LET daysUntil == getDaysUntilExpiry(z, p.expiryDate, today)
            IN  daysUntil <= n /\ daysUntil >= 0
    IN  SelectSeq(ps, Keep)

----------------------------------------------------------------------------
(* The generation collaborator's answer.  A response text is a sequence of *)
(* tokens: an opening brace, a closing brace, "m" for a piece of JSON that *)
(* holds no brace (a member such as "title":"Plov", with its comma), "w"   *)
(* for a word of prose.                                                    *)

Tokens == {"{", "}", "m", "w"}

Positions(text, tok) == {i \in 1..Len(text) : text[i] = tok}

Min(S) == CHOOSE x \in S : \A y \in S : x <= y
Max(S) == CHOOSE x \in S : \A y \in S : x >= y

\* textResponse.match(/\{[\s\S]*\}/): from the first opening brace to the
\* last closing brace of the text; <<>> stands for null (no match).
jsonMatch(text) ==
    LET opens == Positions(text, "{")
        closes == Positions(text, "}")
    IN  IF opens # {} /\ closes # {} /\ Max(closes) > Min(opens)
        THEN SubSeq(text, Min(opens), Max(closes))
        ELSE <<>>

\* Braces opened and not yet closed after the first i tokens of s.
Depth(s, i) ==
    Cardinality({k \in 1..i : s[k] = "{"}) - Cardinality({k \in 1..i : s[k] = "}"})

\* JSON.parse(s) returns an object (rather than throwing a SyntaxError):
\* s is one object, its braces nest, and it holds no prose.
IsJsonObject(s) ==
    /\ Len(s) >= 2
    /\ s[1] = "{"
    /\ s[Len(s)] = "}"
    /\ \A i \in 1..Len(s) : s[i] # "w"
    /\ \A i \in 1..(Len(s) - 1) : Depth(s, i) >= 1
    /\ Depth(s, Len(s)) = 0

(* JSON values, as far as the || of JavaScript tells them apart: a member  *)
(* that is missing, null, a number, a string or an array.                  *)
Missing == [t |-> "missing", n |-> 0, s |-> "", l |-> <<>>]
Null == [t |-> "null", n |-> 0, s |-> "", l |-> <<>>]
Num(n) == [t |-> "number", n |-> n, s |-> "", l |-> <<>>]
Str(s) == [t |-> "string", n |-> 0, s |-> s, l |-> <<>>]
List(l) == [t |-> "array", n |-> 0, s |-> "", l |-> l]

\* ToBoolean: undefined, null, 0 and "" are falsy, every array is truthy.
Truthy(x) ==
    \/ x.t = "array"
    \/ x.t = "number" /\ x.n # 0
    \/ x.t = "string" /\ x.s # ""

\* x || d
OrElse(x, d) == IF Truthy(x) THEN x ELSE d

\* The members of the parsed object that the recipe is built from.
EmptyObject ==
    [cookTime |-> Missing, servings |-> Missing, difficulty |-> Missing,
     ingredients |-> Missing, instructions |-> Missing,
     usesExpiringProducts |-> Missing]

NetworkError == [kind |-> "networkError"]
HttpError == [kind |-> "http", ok |-> FALSE, text |-> <<>>, parsed |-> EmptyObject]

\* A 200 answer: its text, and the object JSON.parse makes of the matched
\* span when it parses.
HttpOkObject(text, object) ==
    [kind |-> "http", ok |-> TRUE, text |-> text, parsed |-> object]

\* A 200 answer whose object gives nothing but a cookTime (0: not even that).
HttpOk(text, cookTime) ==
    HttpOkObject(text,
        [EmptyObject EXCEPT !.cookTime = IF cookTime = 0 THEN Missing
                                         ELSE Num(cookTime)])

DefaultCookTime == 30

\* parsed.usesExpiringProducts with an empty list as its default.
recipeUsesExpiring_empty(object, names) ==
    OrElse(object.usesExpiringProducts, List(<<>>)).l

\* parsed.usesExpiringProducts || expiringProducts
recipeUsesExpiring(object, names) ==
    OrElse(object.usesExpiringProducts, List(names)).l

\* The Recipe with the members of the object taken as they are.
MkRecipe_noDefaults(response, names, newId, t) ==
    LET object == response.parsed
    IN  [id |-> newId,
         json |-> jsonMatch(response.text),
         cookTime |-> object.cookTime.n,
         servings |-> object.servings.n,
         difficulty |-> object.difficulty.s,
         ingredients |-> object.ingredients.l,
         instructions |-> object.instructions.l,
         usesExpiringProducts |-> recipeUsesExpiring(object, names),
         generatedAt |-> t]

\* The Recipe built from the parsed object; names is expiringProducts, the
\* list computed for the prompt.
MkRecipe(response, names, newId, t) ==
    LET object == response.parsed
    IN  [id |-> newId,
         json |-> jsonMatch(response.text),
         cookTime |-> OrElse(object.cookTime, Num(DefaultCookTime)).n,
         servings |-> OrElse(object.servings, Num(DefaultServings)).n,
         difficulty |-> OrElse(object.difficulty, Str("medium")).s,
         ingredients |-> OrElse(object.ingredients, List(<<>>)).l,
         instructions |-> OrElse(object.instructions, List(<<>>)).l,
         usesExpiringProducts |-> recipeUsesExpiring(object, names),
         generatedAt |-> t]

\* A rejection that carries no message.
Failure_silent(message) == [kind |-> "error", message |-> "none"]

Failure(message) == [kind |-> "error", message |-> message]

\* The names the prompt asks to use first.
expiringProducts(ps, t) ==
    LET Soon(p) ==
            LET d == Ceil(p.expiryDate - t, HoursPerDay)
            IN  d <= CriticalDays
        kept == SelectSeq(ps, Soon)
    IN  [i \in 1..Len(kept) |-> kept[i].name]

\* The response handling with an unparseable answer replaced by an empty
\* recipe instead of a failure.
parseRecipeResponse_lenient(response, names, newId, t) ==
    IF response.kind = "networkError" THEN Failure("network request failed")
    ELSE IF ~response.ok THEN Failure("api error")
    ELSE IF response.text = <<>> THEN Failure("empty response")
    ELSE [kind |-> "recipe", recipe |-> MkRecipe(response, names, newId, t)]

\* generateRecipeWithGemini from the fetch on: what it returns or throws.
parseRecipeResponse(response, names, newId, t) ==
    IF response.kind = "networkError" THEN Failure("network request failed")
    ELSE IF ~response.ok THEN Failure("api error")
    ELSE IF response.text = <<>> THEN Failure("empty response")
    ELSE IF jsonMatch(response.text) = <<>> THEN Failure("no recipe generated")
    ELSE IF ~IsJsonObject(jsonMatch(response.text)) THEN Failure("SyntaxError")
    ELSE [kind |-> "recipe", recipe |-> MkRecipe(response, names, newId, t)]

\* generateRecipeWithGemini(products, apiKey, preferences): the request it
\* sends (none without a key) and its outcome.
generateRecipeWithGemini(ps, key, preferences, response, newId, t) ==
    IF key = ""
    THEN [request |-> NoRequest, result |-> Failure("api key not configured")]
    ELSE [request |->
            [kind |-> "sent",
             productList |-> [i \in 1..Len(ps) |-> ps[i].name],
             expiringProducts |-> expiringProducts(ps, t),
             servings |-> IF preferences.servings # 0
                          THEN preferences.servings ELSE DefaultServings],
          result |-> parseRecipeResponse(response, expiringProducts(ps, t),
                                         newId, t)]

----------------------------------------------------------------------------
(* SpecInventory: a product list handed to the ranker and to the recipe    *)
(* request builder.                                                        *)

ListDays == {-1, 0, CriticalDays, CriticalDays + 1, WarningDays + 1}
ListInstants ==
    {HoursPerDay * d : d \in ListDays}
        \cup {HoursPerDay * d + HoursPerDay - 1 : d \in {0, CriticalDays}}
ListNows == {HoursPerDay \div 2, HoursPerDay + HoursPerDay \div 2}
ListZones == {[shift |-> 0, day |-> 0], [shift |-> 1, day |-> 1],
              [shift |-> -1, day |-> 1]}

NameOf(i) == IF i % 2 = 1 THEN "milk" ELSE "bread"

MkProducts(es) ==
    [i \in 1..Len(es) |-> [id |-> i, name |-> NameOf(i), expiryDate |-> es[i]]]

ProductLists ==
    {MkProducts(es) : es \in UNION {[1..n -> ListInstants] : n \in 0..MaxProducts}}

ListResponses == {NetworkError, HttpOk(<<"{", "m", "}">>, 0)}

ExpiryIdle ==
    /\ expiryDate = 0
    /\ status = "none"
    /\ days = 0

InitInventory ==
    /\ StorageIdle
    /\ ScreenIdle
    /\ tz \in ListZones
    /\ now \in ListNows
    /\ products \in ProductLists
    /\ sorted = <<>>
    /\ expiring = <<>>
    /\ withinDays = CriticalDays
    /\ request = NoRequest
    /\ result = NoResult
    /\ op = "init"
    /\ ExpiryIdle

SortProducts ==
    /\ sorted' = sortProductsByExpiry(tz, products, now)
    /\ expiring' = <<>>
    /\ request' = NoRequest
    /\ result' = NoResult
    /\ withinDays' = CriticalDays
    /\ op' = "sort"
    /\ UNCHANGED <<otherVars, tz, now, expiryVars, products, storageVars, screenVars,
                   parts,
                   parsed, guestVars, presence, screens>>

SelectExpiring ==
    /\ \E n \in {0, CriticalDays, WarningDays} :
        /\ withinDays' = n
        /\ expiring' = getExpiringProducts(tz, products, n, now)
    /\ sorted' = <<>>
    /\ request' = NoRequest
    /\ result' = NoResult
    /\ op' = "expiring"
    /\ UNCHANGED <<otherVars, tz, now, expiryVars, products, storageVars, screenVars,
                   parts,
                   parsed, guestVars, presence, screens>>

GenerateFromList ==
    /\ \E key \in {"", "valid-api-key"}, response \in ListResponses :
        LET out == generateRecipeWithGemini(products, key,
                        [servings |-> DefaultServings], response, 1, now)
        IN  /\ request' = out.request
            /\ result' = out.result
    /\ sorted' = <<>>
    /\ expiring' = <<>>
    /\ withinDays' = CriticalDays
    /\ op' = "generate"
    /\ UNCHANGED <<otherVars, tz, now, expiryVars, products, storageVars, screenVars,
                   parts,
                   parsed, guestVars, presence, screens>>

NextInventory == SortProducts \/ SelectExpiring \/ GenerateFromList

SpecInventory == InitInventory /\ [][NextInventory]_vars

DaysOf(p) == getDaysUntilExpiry(tz, p.expiryDate, now)

\* C3: the result of sortProductsByExpiry is a permutation of its input in
\* non-decreasing order of days remaining, products with equal days
\* remaining keep their input order, and the input is left as it was.
C3_StableSort ==
    [][op' = "sort" =>
        /\ products' = products
        /\ Len(sorted') = Len(products)
        /\ \A i \in 1..Len(products) :
            \E j \in 1..Len(sorted') : sorted'[j] = products[i]
        /\ \A i, j \in 1..Len(sorted') :
            i < j =>
                /\ DaysOf(sorted'[i]) <= DaysOf(sorted'[j])
                /\ DaysOf(sorted'[i]) = DaysOf(sorted'[j])
                    => sorted'[i].id < sorted'[j].id]_vars

\* a list with a tie and an inversion has been sorted
C3_Witness ==
    /\ op = "sort"
    /\ \E i, j \in 1..Len(products) :
        i < j /\ DaysOf(products[i]) = DaysOf(products[j])
    /\ \E i, j \in 1..Len(products) :
        i < j /\ DaysOf(products[i]) > DaysOf(products[j])

\* C4: getExpiringProducts(products, n) holds exactly the products with
\* 0 <= days remaining <= n, each once and in input order.
C4_ExpiringWindow ==
    op = "expiring" =>
        /\ \A i \in 1..Len(expiring) :
            /\ 0 <= DaysOf(expiring[i])
            /\ DaysOf(expiring[i]) <= withinDays
        /\ \A i \in 1..Len(products) :
            (0 <= DaysOf(products[i]) /\ DaysOf(products[i]) <= withinDays)
                => \E j \in 1..Len(expiring) : expiring[j] = products[i]
        /\ \A j \in 1..Len(expiring) :
            \E i \in 1..Len(products) : expiring[j] = products[i]
        /\ \A i, j \in 1..Len(expiring) :
            i < j => expiring[i].id < expiring[j].id

\* with n = 3, an overdue product and one four days away were left out and
\* one was kept
C4_Witness ==
    /\ op = "expiring"
    /\ withinDays = 3
    /\ Len(expiring) > 0
    /\ \E i \in 1..Len(products) : DaysOf(products[i]) < 0
    /\ \E i \in 1..Len(products) : DaysOf(products[i]) > 3

NonFreshNames ==
    LET NotFresh(p) == getExpiryStatus(tz, p.expiryDate, now) # "fresh"
        kept == SelectSeq(products, NotFresh)
    IN  [i \in 1..Len(kept) |-> kept[i].name]

\* C7: the names the request flags as to be prioritized are exactly the
\* names of the supplied products whose tier is warning or critical.
C7_FlaggedAreNonFresh ==
    (op = "generate" /\ request.kind = "sent")
        => request.expiringProducts = NonFreshNames

----------------------------------------------------------------------------
(* Persistence layer.  A stored collection is the sequence last written    *)
(* under its key (<<>> when the key is absent); JSON.stringify and         *)
(* JSON.parse carry the records' fields over unchanged.  AsyncStorage      *)
(* calls may reject: readOk and writeOk tell whether getItem and setItem   *)
(* succeed.  Every operation yields the collection as stored afterwards    *)
(* and whether it rejected.                                                *)

HistoryLimit == 50

Ids(recipes) == {recipes[i].id : i \in 1..Len(recipes)}

\* getRecipeHistory, getSavedRecipes: a failed read is logged, [] returned
getRecipes(stored, readOk) == IF readOk THEN stored ELSE <<>>

\* addToRecipeHistory without removing the earlier entry of the same id.
addToRecipeHistory_keepOld(stored, recipe, readOk, writeOk) ==
    LET hist == getRecipes(stored, readOk)
        unshifted == <<recipe>> \o hist
        trimmed == SubSeq(unshifted, 1,
                        IF Len(unshifted) < HistoryLimit
                        THEN Len(unshifted) ELSE HistoryLimit)
    IN  IF writeOk THEN [stored |-> trimmed, threw |-> FALSE]
        ELSE [stored |-> stored, threw |-> TRUE]

\* addToRecipeHistory putting the recipe at the end of the list.
addToRecipeHistory_append(stored, recipe, readOk, writeOk) ==
    LET hist == getRecipes(stored, readOk)
        Other(r) == r.id # recipe.id
        filtered == SelectSeq(hist, Other)
        pushed == filtered \o <<recipe>>
        trimmed == SubSeq(pushed, 1,
                        IF Len(pushed) < HistoryLimit
                        THEN Len(pushed) ELSE HistoryLimit)
    IN  IF writeOk THEN [stored |-> trimmed, threw |-> FALSE]
        ELSE [stored |-> stored, threw |-> TRUE]

addToRecipeHistory(stored, recipe, readOk, writeOk) ==
    LET hist == getRecipes(stored, readOk)
        Other(r) == r.id # recipe.id
        filtered == SelectSeq(hist, Other)
        unshifted == <<recipe>> \o filtered
        trimmed == SubSeq(unshifted, 1,
                        IF Len(unshifted) < HistoryLimit
                        THEN Len(unshifted) ELSE HistoryLimit)
    IN  IF writeOk THEN [stored |-> trimmed, threw |-> FALSE]
        ELSE [stored |-> stored, threw |-> TRUE]

saveRecipe(stored, recipe, t, readOk, writeOk) ==
    LET recipes == getRecipes(stored, readOk)
        exists == \E i \in 1..Len(recipes) : recipes[i].id = recipe.id
        unshifted ==
            <<[id |-> recipe.id, rev |-> recipe.rev, savedAt |-> t]>> \o recipes
    IN  IF exists THEN [stored |-> stored, threw |-> FALSE]
        ELSE IF writeOk THEN [stored |-> unshifted, threw |-> FALSE]
        ELSE [stored |-> stored, threw |-> TRUE]

removeSavedRecipe(stored, recipeId, readOk, writeOk) ==
    LET recipes == getRecipes(stored, readOk)
        Other(r) == r.id # recipeId
        filtered == SelectSeq(recipes, Other)
    IN  IF writeOk THEN [stored |-> filtered, threw |-> FALSE]
        ELSE [stored |-> stored, threw |-> TRUE]

----------------------------------------------------------------------------------------------------------------------------------------
(* SpecHistory: addToRecipeHistory called again and again, each call run   *)
(* to completion.  The session starts with the history earlier sessions    *)
(* left in storage: up to 50 generated recipes, most recent first.         *)
(* Generated recipes carry fresh ids; a recipe already in the history may  *)
(* be added again.                                                         *)

MaxCalls == 2       \* storage calls in one session

IoOutcomes == [readOk : BOOLEAN, writeOk : BOOLEAN]

\* What n generations, each followed by addToRecipeHistory, leave behind.
PriorHistory(n) == [i \in 1..n |-> [id |-> n + 1 - i, rev |-> 0]]

\* The entries offered for another addition: first, middle and last.
ReAddCandidates(hist) ==
    IF hist = <<>> THEN {}
    ELSE {hist[1].id, hist[(Len(hist) + 1) \div 2].id, hist[Len(hist)].id}

InitHistory ==
    /\ \E n \in 0..HistoryLimit :
        /\ history = PriorHistory(n)
        /\ nextId = n + 1
    /\ savedRecipes = <<>>
    /\ stats = NoStats
    /\ arg = 0
    /\ threw = FALSE
    /\ calls = 0
    /\ ScreenIdle
    /\ tz = [shift |-> 0, day |-> 0]
    /\ now = 0
    /\ ExpiryIdle
    /\ products = <<>>
    /\ sorted = <<>>
    /\ expiring = <<>>
    /\ withinDays = CriticalDays
    /\ request = NoRequest
    /\ result = NoResult
    /\ op = "init"

AddNewToHistory ==
    /\ calls < MaxCalls
    /\ \E io \in IoOutcomes :
        LET out == addToRecipeHistory(history, [id |-> nextId, rev |-> 0],
                        io.readOk, io.writeOk)
        IN  /\ history' = out.stored
            /\ threw' = out.threw
    /\ arg' = nextId
    /\ nextId' = nextId + 1
    /\ calls' = calls + 1
    /\ op' = "addNew"
    /\ UNCHANGED <<otherVars, tz, now, expiryVars, inventoryVars, request, result,
                   savedRecipes, stats, screenVars, parts,
                   parsed, guestVars, presence, screens>>

ReAddToHistory ==
    /\ calls < MaxCalls
    /\ \E id \in ReAddCandidates(history), io \in IoOutcomes :
        LET out == addToRecipeHistory(history, [id |-> id, rev |-> 1],
                        io.readOk, io.writeOk)
        IN  /\ history' = out.stored
            /\ threw' = out.threw
            /\ arg' = id
    /\ calls' = calls + 1
    /\ op' = "reAdd"
    /\ UNCHANGED <<otherVars, tz, now, expiryVars, inventoryVars, request, result,
                   savedRecipes, nextId, stats, screenVars, parts,
                   parsed, guestVars, presence, screens>>

NextHistory == AddNewToHistory \/ ReAddToHistory

SpecHistory == InitHistory /\ [][NextHistory]_vars

NoDuplicateIds(recipes) ==
    \A i, j \in 1..Len(recipes) : recipes[i].id = recipes[j].id => i = j

\* C5: the stored history never holds two entries with the same id and
\* never more than 50 entries.
C5_HistoryBounded ==
    NoDuplicateIds(history) /\ Len(history) <= 50

\* a recipe already present was added again, then a new one to the full
\* history
C5_Witness ==
    /\ op = "addNew"
    /\ ~threw
    /\ Len(history) = 50
    /\ nextId > 51
    /\ \E i \in 1..Len(history) : history[i].rev = 1

\* The history after an addition of id to the history before: id first,
\* then the other entries in their previous order, cut at the end only and
\* only past the limit; an id that was there already leaves the length as
\* it was.
MovedToFront(before, after, id) ==
    LET Other(r) == r.id # id
        rest == SelectSeq(before, Other)
        kept == IF Len(rest) < HistoryLimit THEN Len(rest) ELSE HistoryLimit - 1
    IN  /\ after # <<>>
        /\ after[1].id = id
        /\ Tail(after) = SubSeq(rest, 1, kept)
        /\ id \in Ids(before) => Len(after) = Len(before)

----------------------------------------------------------------------------
(* SpecSaved: saveRecipe and removeSavedRecipe called one at a time on     *)
(* recipes the user opens; the clock moves on between calls.               *)

MaxSavedIds == 3    \* distinct recipes the user saves or removes
MaxSavedCalls == 3  \* saveRecipe / removeSavedRecipe calls in one session

InitSaved ==
    /\ StorageIdle
    /\ ScreenIdle
    /\ tz = [shift |-> 0, day |-> 0]
    /\ now = 0
    /\ ExpiryIdle
    /\ products = <<>>
    /\ sorted = <<>>
    /\ expiring = <<>>
    /\ withinDays = CriticalDays
    /\ request = NoRequest
    /\ result = NoResult
    /\ op = "init"

SaveRecipe ==
    /\ calls < MaxSavedCalls
    /\ \E id \in 1..MaxSavedIds, io \in IoOutcomes :
        LET out == saveRecipe(savedRecipes, [id |-> id, rev |-> 0], now,
                        io.readOk, io.writeOk)
        IN  /\ savedRecipes' = out.stored
            /\ threw' = out.threw
            /\ arg' = id
    /\ now' = now + 1
    /\ calls' = calls + 1
    /\ op' = "saveRecipe"
    /\ UNCHANGED <<otherVars, tz, expiryVars, inventoryVars, request, result, history,
                   nextId, stats, screenVars, parts,
                   parsed, guestVars, presence, screens>>

RemoveSavedRecipe ==
    /\ calls < MaxSavedCalls
    /\ \E id \in 1..MaxSavedIds, io \in IoOutcomes :
        LET out == removeSavedRecipe(savedRecipes, id, io.readOk, io.writeOk)
        IN  /\ savedRecipes' = out.stored
            /\ threw' = out.threw
            /\ arg' = id
    /\ now' = now + 1
    /\ calls' = calls + 1
    /\ op' = "removeSavedRecipe"
    /\ UNCHANGED <<otherVars, tz, expiryVars, inventoryVars, request, result, history,
                   nextId, stats, screenVars, parts,
                   parsed, guestVars, presence, screens>>

NextSaved == SaveRecipe \/ RemoveSavedRecipe

SpecSaved == InitSaved /\ [][NextSaved]_vars

\* C6: the saved collection holds at most one entry per recipe id, and
\* saveRecipe for an id that is already saved leaves the collection as it
\* was (same entries, same order, same savedAt).
C6_SaveIdempotent ==
    [][/\ NoDuplicateIds(savedRecipes')
       /\ (op' = "saveRecipe" /\ arg' \in Ids(savedRecipes))
            => savedRecipes' = savedRecipes]_vars

----------------------------------------------------------------------------
(* SpecResponse: generateRecipeWithGemini on the texts the collaborator    *)
(* may answer with: some prose, an object in braces (or none), some prose. *)

MaxProse == 1       \* tokens of prose on either side
MaxBody == 2        \* tokens between the braces of the object

SeqsUpTo(n) == UNION {[1..k -> Tokens] : k \in 0..n}

Objects == {<<>>} \cup {<<"{">> \o body \o <<"}">> : body \in SeqsUpTo(MaxBody)}

textOf(ps) == ps.pre \o ps.obj \o ps.post

InitResponse ==
    /\ StorageIdle
    /\ ExpiryIdle
    /\ InventoryIdle
    /\ tz = [shift |-> 0, day |-> 0]
    /\ now = 0
    /\ op = "init"
    /\ storedProducts = <<>>
    /\ screenProducts = <<>>
    /\ loaded = FALSE
    /\ selectedIds = {}
    /\ toggled = FALSE
    /\ servings = DefaultServings
    /\ apiKey = "valid-api-key"
    /\ isGenerating = FALSE
    /\ sent = <<>>
    /\ alert = "none"
    /\ navigated = FALSE
    /\ taps = 0
    /\ faults = 0
    /\ parts \in [pre : SeqsUpTo(MaxProse), obj : Objects, post : SeqsUpTo(MaxProse)]
    /\ parsed = NoParsed
    /\ GuestIdle
    /\ presence = "focused"
    /\ screens = NoScreens /\ OtherIdle

\* The call, answered with status 200 and the text.
GenerateFromText ==
    /\ op = "init"
    /\ \E cookTime \in {0, 20} :
        LET out == generateRecipeWithGemini(<<>>, apiKey,
                        [servings |-> servings],
                        HttpOk(textOf(parts), cookTime), nextId, now)
        IN  /\ request' = out.request
            /\ result' = out.result
    /\ nextId' = nextId + 1
    /\ op' = "generate"
    /\ UNCHANGED <<otherVars, tz, now, expiryVars, inventoryVars, history, savedRecipes,
                   arg, threw, calls, stats, screenVars, parts,
                   parsed, guestVars, presence, screens>>

\* The call, with the transport or the service failing.
GenerateFails ==
    /\ op = "init"
    /\ \E response \in {NetworkError, HttpError} :
        LET out == generateRecipeWithGemini(<<>>, apiKey,
                        [servings |-> servings], response, nextId, now)
        IN  /\ request' = out.request
            /\ result' = out.result
    /\ op' = "generateFails"
    /\ UNCHANGED <<otherVars, tz, now, expiryVars, inventoryVars, storageVars,
                   screenVars, parts,
                   parsed, guestVars, presence, screens>>

NextResponse == GenerateFromText \/ GenerateFails

SpecResponse == InitResponse /\ [][NextResponse]_vars

\* No part of s is a JSON object.
IsProse(s) ==
    \A i, j \in 1..Len(s) : i <= j => ~IsJsonObject(SubSeq(s, i, j))

\* C9: when the text is prose, one JSON object, prose, the call parses
\* exactly that object, whatever the prose holds.
C9_ExtractsEmbeddedObject ==
    (/\ op = "generate"
     /\ IsJsonObject(parts.obj)
     /\ IsProse(parts.pre)
     /\ IsProse(parts.post))
        => (result.kind = "recipe" /\ result.recipe.json = parts.obj)

\* No opening brace of the text is followed by a closing brace.
NoBraceSpan(text) ==
    ~\E i, j \in 1..Len(text) : i < j /\ text[i] = "{" /\ text[j] = "}"

\* C10: when the text holds no '{'...'}' span, or the span found is not
\* valid JSON, the call fails with an error and returns no Recipe.
C10_UnparseableFails ==
    (/\ op = "generate"
     /\ \/ NoBraceSpan(textOf(parts))
        \/ ~IsJsonObject(jsonMatch(textOf(parts))))
        => result.kind = "error"

\* a text that holds a brace but no span was answered and the call failed
C10_Witness ==
    /\ op = "generate"
    /\ result.kind = "error"
    /\ textOf(parts) # <<>>
    /\ NoBraceSpan(textOf(parts))
    /\ Positions(textOf(parts), "}") # {}

----------------------------------------------------------------------------
(* User statistics *)

defaultStats ==
    [present |-> TRUE, moneySaved |-> 2450, timeSaved |-> 180,
     wastePrevented |-> 125,        \* 12.5, in tenths
     recipesGenerated |-> 8, productsScanned |-> 47, lastUpdated |-> 0]

\* getUserStats: the stored record, defaultStats when there is none or the
\* read fails
getUserStats(stored, readOk) ==
    IF readOk /\ stored.present THEN stored ELSE defaultStats

\* updateUserStats({ [key]: value })
updateUserStats(stored, key, value, t, readOk, writeOk) ==
    LET newStats ==
            [getUserStats(stored, readOk) EXCEPT ![key] = value,
                                                 !.lastUpdated = t]
    IN  IF writeOk THEN [stored |-> newStats, threw |-> FALSE]
        ELSE [stored |-> stored, threw |-> TRUE]

\* incrementStat(key, amount); io tells how its two reads and its write go
incrementStat(stored, key, amount, t, io) ==
    LET cur == getUserStats(stored, io.read1)
    IN  updateUserStats(stored, key, cur[key] + amount, t, io.read2, io.writeOk)

----------------------------------------------------------------------------
(* SpecScreen: the recipe generation screen, from mount to the navigation  *)
(* to the generated recipe.                                                *)

MaxScreenProducts == 2  \* products in the stored inventory
MaxAttempts == 2        \* presses of the generate button
MaxTaps == 2            \* taps on products, "select all" and the stepper
MaxFaults == 1          \* handleGenerate runs that meet a storage failure

AutoSelectLimit == 5
SavingPerProduct == 150

ApiKeys == {"", "short-key", "valid-api-key"}

\* apiKey.length
KeyLength(key) ==
    CASE key = "" -> 0
      [] key = "short-key" -> 9
      [] key = "ten-chars!" -> 10
      [] key = "valid-api-key" -> 13

\* ApiKeyContext: isConfigured
isConfigured(key) == KeyLength(key) > 10

ScreenDays == {0, WarningDays + 1}

ScreenInventories ==
    {MkProducts(es) :
        es \in UNION {[1..n -> {HoursPerDay * d : d \in ScreenDays}] :
                        n \in 0..MaxScreenProducts}}

\* getProducts
getProducts(stored, readOk) == IF readOk THEN stored ELSE <<>>

\* The selection the effect on [products] installs: the first five
\* products, most urgent first, that are not fresh.
autoSelection(z, ps, t) ==
    LET ranked == sortProductsByExpiry(z, ps, t)
        NotFresh(p) == getExpiryStatus(z, p.expiryDate, t) # "fresh"
        urgent == SelectSeq(ranked, NotFresh)
        n == IF Len(urgent) < AutoSelectLimit THEN Len(urgent)
             ELSE AutoSelectLimit
    IN  {urgent[i].id : i \in 1..n}

\* handleGenerate: selectedProducts
selectedProducts(ps, ids) ==
    LET Chosen(p) == p.id \in ids
    IN  IF Cardinality(ids) > 0 THEN SelectSeq(ps, Chosen) ELSE <<>>

\* A screen that reloads its products again and again (on focus, say).
LoadPending_refresh == TRUE

\* The load runs once, from the effect on mount.
LoadPending == ~loaded

\* How the storage calls of one handleGenerate go: all succeed, or one of
\* them fails.
AllOk ==
    [histRead |-> TRUE, histWrite |-> TRUE,
     s1 |-> [read1 |-> TRUE, read2 |-> TRUE, writeOk |-> TRUE],
     s2 |-> [read1 |-> TRUE, read2 |-> TRUE, writeOk |-> TRUE],
     s3 |-> [read1 |-> TRUE, read2 |-> TRUE, writeOk |-> TRUE]]

StorageScenarios ==
    {AllOk,
     [AllOk EXCEPT !.histRead = FALSE],
     [AllOk EXCEPT !.histWrite = FALSE]}
    \cup {[AllOk EXCEPT ![c][f] = FALSE] :
            c \in {"s1", "s2", "s3"}, f \in {"read1", "read2", "writeOk"}}

ScreenResponses ==
    {NetworkError, HttpOk(<<"w">>, 0), HttpOk(<<"{", "m", "}">>, 20)}

\* The generation screen as it mounts.
ScreenMounted ==
    /\ ExpiryIdle
    /\ InventoryIdle
    /\ tz = [shift |-> 0, day |-> 0]
    /\ now = HoursPerDay \div 2
    /\ op = "mount"
    /\ history = <<>>
    /\ savedRecipes = <<>>
    /\ stats = NoStats
    /\ arg = 0
    /\ threw = FALSE
    /\ nextId = 1
    /\ calls = 0
    /\ storedProducts \in ScreenInventories
    /\ screenProducts = <<>>
    /\ loaded = FALSE
    /\ selectedIds = {}
    /\ toggled = FALSE
    /\ servings = DefaultServings
    /\ apiKey \in ApiKeys
    /\ isGenerating = FALSE
    /\ sent = <<>>
    /\ alert = "none"
    /\ navigated = FALSE
    /\ taps = 0
    /\ faults = 0
    /\ parts = NoParts
    /\ parsed = NoParsed
    /\ GuestIdle
    /\ presence = "focused"
    /\ screens = NoScreens

InitScreen == ScreenMounted /\ OtherIdle

\* loadProducts finishes: setProducts(data), and the effect on [products]
\* replaces the selection.
LoadProductsDone ==
    /\ LoadPending
    /\ ~navigated
    /\ \E readOk \in BOOLEAN :
        LET data == getProducts(storedProducts, readOk)
        IN  /\ screenProducts' = data
            /\ selectedIds' = autoSelection(tz, data, now)
    /\ loaded' = TRUE
    /\ op' = "load"
    /\ UNCHANGED <<otherVars, tz, now, expiryVars, inventoryVars, request, result,
                   storageVars, storedProducts, toggled, servings, apiKey,
                   isGenerating, sent, alert, navigated, taps, faults, parts,
                   parsed, guestVars, presence, screens>>

\* The user taps a product of the list.
toggleProduct ==
    /\ presence = "focused"
    /\ ~isGenerating
    /\ ~navigated
    /\ taps < MaxTaps
    /\ taps' = taps + 1
    /\ \E i \in 1..Len(screenProducts) :
        LET id == screenProducts[i].id
        IN  selectedIds' = IF id \in selectedIds THEN selectedIds \ {id}
                           ELSE selectedIds \cup {id}
    /\ toggled' = TRUE
    /\ op' = "toggle"
    /\ UNCHANGED <<otherVars, tz, now, expiryVars, inventoryVars, request, result,
                   storageVars, storedProducts, screenProducts, loaded,
                   servings, apiKey, isGenerating, sent, alert, navigated,
                   faults, parts,
                   parsed, guestVars, presence, screens>>

\* The user taps "select all" / "clear all".
ToggleAll ==
    /\ ~isGenerating
    /\ ~navigated
    /\ taps < MaxTaps
    /\ taps' = taps + 1
    /\ selectedIds' = IF Cardinality(selectedIds) = Len(screenProducts)
                      THEN {}
                      ELSE {screenProducts[i].id : i \in 1..Len(screenProducts)}
    /\ toggled' = (toggled \/ selectedIds' # selectedIds)
    /\ op' = "toggleAll"
    /\ UNCHANGED <<otherVars, tz, now, expiryVars, inventoryVars, request, result,
                   storageVars, storedProducts, screenProducts, loaded,
                   servings, apiKey, isGenerating, sent, alert, navigated,
                   faults, parts,
                   parsed, guestVars, presence, screens>>

\* The user taps plus or minus on the servings stepper.
ChangeServings ==
    /\ ~isGenerating
    /\ ~navigated
    /\ taps < MaxTaps
    /\ taps' = taps + 1
    /\ \/ servings' = (IF servings - 1 > 1 THEN servings - 1 ELSE 1)
       \/ servings' = servings + 1
    /\ servings' # servings
    /\ op' = "servings"
    /\ UNCHANGED <<otherVars, tz, now, expiryVars, inventoryVars, request, result,
                   storageVars, storedProducts, screenProducts, loaded,
                   selectedIds, toggled, apiKey, isGenerating, sent, alert,
                   navigated, faults, parts,
                   parsed, guestVars, presence, screens>>

\* handleGenerate without a configured key: an alert, nothing else.
GenerateUnconfigured ==
    /\ ~isGenerating
    /\ ~navigated
    /\ calls < MaxAttempts
    /\ ~isConfigured(apiKey)
    /\ alert' = "api key not configured"
    /\ calls' = calls + 1
    /\ op' = "generateUnconfigured"
    /\ UNCHANGED <<otherVars, tz, now, expiryVars, inventoryVars, request, result,
                   history, savedRecipes, arg, threw, nextId, stats,
                   storedProducts, screenProducts, loaded, selectedIds,
                   toggled, servings, apiKey, isGenerating, sent, navigated,
                   taps, faults, parts,
                   parsed, guestVars, presence, screens>>

\* handleGenerate up to the fetch: the selection becomes the request.
StartGenerate ==
    /\ presence = "focused"
    /\ ~isGenerating
    /\ ~navigated
    /\ calls < MaxAttempts
    /\ isConfigured(apiKey)
    /\ isGenerating' = TRUE
    /\ sent' = selectedProducts(screenProducts, selectedIds)
    /\ request' = generateRecipeWithGemini(sent', apiKey,
                        [servings |-> servings], NetworkError, nextId, now).request
    /\ result' = NoResult
    /\ calls' = calls + 1
    /\ op' = "startGenerate"
    /\ UNCHANGED <<otherVars, tz, now, expiryVars, inventoryVars, history, savedRecipes,
                   arg, threw, nextId, stats, storedProducts, screenProducts,
                   loaded, selectedIds, toggled, servings, apiKey, alert,
                   navigated, taps, faults, faults, parts,
                   parsed, guestVars, presence, screens>>

\* handleGenerate from the answer on: the recipe goes to the history, the
\* statistics are incremented, the screen is replaced by the recipe; any
\* rejection on the way ends in the alert.
\* Nothing in it asks whether the screen is still there: only a replace
\* issued from a route already removed from the stack finds nothing to
\* replace.
FinishGenerateWith(responses) ==
    /\ isGenerating
    /\ \E response \in responses, io \in StorageScenarios :
        LET out == parseRecipeResponse(response, expiringProducts(sent, now),
                                       nextId, now)
            recipe == out.recipe
            h == addToRecipeHistory(history, [id |-> recipe.id, rev |-> 0],
                        io.histRead, io.histWrite)
            s1 == incrementStat(stats, "recipesGenerated", 1, now, io.s1)
            s2 == incrementStat(s1.stored, "timeSaved", recipe.cookTime, now, io.s2)
            IsCritical(p) == getExpiryStatus(tz, p.expiryDate, now) = "critical"
            s3 == incrementStat(s2.stored, "moneySaved",
                        SavingPerProduct * Len(SelectSeq(sent, IsCritical)),
                        now, io.s3)
        IN  /\ result' = out
            /\ IF out.kind = "error"
               THEN /\ io = AllOk
                    /\ alert' = out.message
                    /\ UNCHANGED <<history, stats, navigated, threw, nextId,
                                   faults>>
               ELSE /\ io # AllOk => faults < MaxFaults
                    /\ faults' = IF io # AllOk THEN faults + 1 ELSE faults
                    /\ nextId' = nextId + 1
                    /\ history' = h.stored
                    /\ stats' = IF h.threw THEN stats
                                ELSE IF s1.threw THEN s1.stored
                                ELSE IF s2.threw THEN s2.stored
                                ELSE s3.stored
                    /\ threw' = (h.threw \/ s1.threw \/ s2.threw \/ s3.threw)
                    /\ navigated' = (~threw' /\ presence # "unmounted")
                    /\ alert' = IF threw' THEN "storage error" ELSE alert
    /\ isGenerating' = FALSE
    /\ op' = "finishGenerate"
    /\ UNCHANGED <<otherVars, tz, now, expiryVars, inventoryVars, request, savedRecipes,
                   arg, calls, storedProducts, screenProducts, loaded,
                   selectedIds, toggled, servings, apiKey, sent, taps, parts,
                   parsed, guestVars, presence, screens>>

FinishGenerate == FinishGenerateWith(ScreenResponses)

NextScreen ==
    \/ LoadProductsDone
    \/ toggleProduct
    \/ ToggleAll
    \/ ChangeServings
    \/ GenerateUnconfigured
    \/ StartGenerate
    \/ FinishGenerate

SpecScreen == InitScreen /\ [][NextScreen]_vars

\* C8: the products sent to generateRecipeWithGemini are those of the
\* current selection, and once the user has changed the selection only the
\* user's own taps change it again: no reload puts the automatic selection
\* back.
C8_SelectionKept ==
    [][/\ (toggled /\ selectedIds' # selectedIds)
            => op' \in {"toggle", "toggleAll"}
       /\ op' = "startGenerate"
            => /\ Ids(sent') = selectedIds
               /\ \A i \in 1..Len(screenProducts) :
                    (screenProducts[i].id \in selectedIds)
                        <=> (\E j \in 1..Len(sent') : sent'[j] = screenProducts[i])]_vars

\* the user changed the automatic selection and then generated
C8_Witness ==
    /\ op = "startGenerate"
    /\ toggled
    /\ loaded
    /\ sent # <<>>
    /\ selectedIds # autoSelection(tz, screenProducts, now)

\* C23: when the recipe was generated and a write of the history or of the
\* statistics then fails, the user sees no generation error and the screen
\* still goes to the recipe.
C23_StorageFailureTolerated ==
    [][(op' = "finishGenerate" /\ result'.kind = "recipe") =>
            (navigated' /\ alert' = alert)]_vars

----------------------------------------------------------------------------
(* SpecFields: generateRecipeWithGemini answered with a JSON object that   *)
(* parses, its members present, null or missing.                           *)

Absent(x) == x.t \in {"missing", "null"}

FieldInventories ==
    LET soon == HoursPerDay \div 2 + HoursPerDay
        far == HoursPerDay \div 2 + HoursPerDay * (WarningDays + 1)
        P(i, e) == [id |-> i, name |-> NameOf(i), expiryDate |-> e]
    IN  {<<>>, <<P(1, soon)>>, <<P(1, far)>>, <<P(1, soon), P(2, far)>>,
         <<P(1, soon), P(2, soon)>>}

\* preferences.servings; 0 stands for preferences without servings.
FieldServings == {0, 2, 6}

ParsedObjects ==
    [cookTime : {Missing, Null, Num(20)},
     servings : {Missing, Null, Num(2)},
     difficulty : {Missing, Null, Str("easy")},
     ingredients : {Missing, Null, List(<<"rice">>)},
     instructions : {Missing, List(<<"boil">>)},
     usesExpiringProducts : {Missing, Null, List(<<>>), List(<<"milk">>),
                             List(<<"caviar">>)}]

InitFields ==
    /\ StorageIdle
    /\ ExpiryIdle
    /\ GuestIdle
    /\ tz = [shift |-> 0, day |-> 0]
    /\ now = HoursPerDay \div 2
    /\ op = "init"
    /\ products \in FieldInventories
    /\ sorted = <<>>
    /\ expiring = <<>>
    /\ withinDays = CriticalDays
    /\ request = NoRequest
    /\ result = NoResult
    /\ storedProducts = <<>>
    /\ screenProducts = <<>>
    /\ loaded = FALSE
    /\ selectedIds = {}
    /\ toggled = FALSE
    /\ servings \in FieldServings
    /\ apiKey = "valid-api-key"
    /\ isGenerating = FALSE
    /\ sent = <<>>
    /\ alert = "none"
    /\ navigated = FALSE
    /\ taps = 0
    /\ faults = 0
    /\ parts = NoParts
    /\ parsed = NoParsed
    /\ presence = "focused"
    /\ screens = NoScreens /\ OtherIdle

\* The call, answered with status 200 and a text that is one JSON object.
GenerateFromObject ==
    /\ op = "init"
    /\ \E object \in ParsedObjects :
        LET out == generateRecipeWithGemini(products, apiKey,
                        [servings |-> servings],
                        HttpOkObject(<<"{", "m", "}">>, object), nextId, now)
        IN  /\ parsed' = object
            /\ request' = out.request
            /\ result' = out.result
    /\ nextId' = nextId + 1
    /\ op' = "generateObject"
    /\ UNCHANGED <<otherVars, tz, now, expiryVars, products, sorted, expiring, withinDays,
                   history, savedRecipes, arg, threw, calls, stats, screenVars,
                   parts, guestVars, presence, screens>>

\* The call, answered with a text that holds no object at all.
GenerateFromProse ==
    /\ op = "init"
    /\ LET out == generateRecipeWithGemini(products, apiKey,
                        [servings |-> servings],
                        HttpOkObject(<<"w">>, EmptyObject), nextId, now)
       IN  /\ request' = out.request
           /\ result' = out.result
    /\ op' = "generateProse"
    /\ UNCHANGED <<otherVars, tz, now, expiryVars, inventoryVars, storageVars, screenVars,
                   parts, parsed, guestVars, presence, screens>>

NextFields == GenerateFromObject \/ GenerateFromProse

SpecFields == InitFields /\ [][NextFields]_vars

C12_ServingsFromRequest ==
    (op = "generateObject" /\ parsed.servings = Missing) =>
        /\ result.kind = "recipe"
        /\ result.recipe.servings = IF servings # 0 THEN servings ELSE 4

\* C13: when the response omits usesExpiringProducts, the Recipe's
\* usesExpiringProducts is the list of names computed for the prompt.
C13_ExpiringDefault ==
    (op = "generateObject" /\ parsed.usesExpiringProducts = Missing) =>
        /\ result.kind = "recipe"
        /\ result.recipe.usesExpiringProducts = request.expiringProducts
        /\ request.expiringProducts = expiringProducts(products, now)

C13_Witness ==
    /\ op = "generateObject"
    /\ parsed.usesExpiringProducts = Missing
    /\ result.kind = "recipe"
    /\ result.recipe.usesExpiringProducts = <<"milk", "bread">>

\* C14: every name in a returned Recipe's usesExpiringProducts is the name
\* of a product that was given to the call.
C14_ExpiringNamesFromInput ==
    (op = "generateObject" /\ result.kind = "recipe") =>
        \A i \in 1..Len(result.recipe.usesExpiringProducts) :
            \E k \in 1..Len(products) :
                products[k].name = result.recipe.usesExpiringProducts[i]

----------------------------------------------------------------------------
(* The guest menu of MealPlanScreen and the shopping list it is imported   *)
(* into.  An addItem call reads the stored list, appends and writes it     *)
(* back; the calls a handler starts without awaiting them run interleaved. *)

MaxMenus == 1           \* guest menus generated
MaxImports == 2         \* presses of "add to cart" under a generated menu
MaxPending == 2         \* addItem / addItems calls under way at a time
MaxOwnItems == 1        \* items added by hand or from a recipe

budgetRanges ==
    [economy |-> [min |-> 650, max |-> 1100],
     standard |-> [min |-> 1100, max |-> 1800],
     premium |-> [min |-> 1800, max |-> 3000]]

\* (range.min + range.max) / 2: the sums are even.
targetCostPerPerson(budget) ==
    (budgetRanges[budget].min + budgetRanges[budget].max) \div 2

totalBudget(guestCount, budget) == targetCostPerPerson(budget) * guestCount

\* processRecipes(items): the dishes of one course, ids from firstId on.
processRecipes(items, guestCount, firstId, t) ==
    LET titles == OrElse(items, List(<<>>)).l
    IN  [i \in 1..Len(titles) |->
            [id |-> firstId + i - 1, title |-> titles[i],
             cookTime |-> DefaultCookTime, servings |-> guestCount,
             usesExpiringProducts |-> <<>>, generatedAt |-> t]]

\* The members of the parsed guest menu object.
GuestObjects ==
    [appetizers : {Missing},
     mains : {List(<<"plov">>)},
     desserts : {Missing},
     beverages : {Missing, List(<<"tea">>)},
     shoppingList : {Missing, List(<<"rice", "meat">>), List(<<"rice", "rice">>)},
     totalCost : {Missing, Num(6000)},
     perPersonCost : {Missing, Num(1000)}]

\* The menu built from the parsed object: the shopping list first, then the
\* courses, each entry with an id of its own.
MkGuestMenu(object, guestCount, budget, newId, t) ==
    LET names == OrElse(object.shoppingList, List(<<>>)).l
        first == processRecipes(object.appetizers, guestCount,
                                newId + Len(names), t)
        second == processRecipes(object.mains, guestCount,
                                 newId + Len(names) + Len(first), t)
        third == processRecipes(object.desserts, guestCount,
                                newId + Len(names) + Len(first) + Len(second), t)
    IN  [kind |-> "menu",
         appetizers |-> first,
         mains |-> second,
         desserts |-> third,
         beverages |-> OrElse(object.beverages, List(<<>>)).l,
         shoppingList |-> [i \in 1..Len(names) |->
                            [id |-> newId + i - 1, name |-> names[i],
                             checked |-> FALSE]],
         totalCost |->
            OrElse(object.totalCost, Num(totalBudget(guestCount, budget))).n,
         perPersonCost |->
            OrElse(object.perPersonCost, Num(targetCostPerPerson(budget))).n]

\* Ids generateId handed out while the menu was built.
IdsUsed(m) ==
    Len(m.shoppingList) + Len(m.appetizers) + Len(m.mains) + Len(m.desserts)

\* generateGuestMenuWithGemini(guestCount, budget, city, apiKey): the request
\* it sends (none without a key) and its outcome.
generateGuestMenuWithGemini(guestCount, budget, key, response, newId, t) ==
    IF key = ""
    THEN [request |-> NoRequest, result |-> Failure("api key not configured")]
    ELSE [request |-> [kind |-> "sent", guestCount |-> guestCount,
                       budget |-> budget],
          result |->
            IF response.kind = "networkError"
            THEN Failure("network request failed")
            ELSE IF ~response.ok THEN Failure("api error")
            ELSE IF response.text = <<>> THEN Failure("empty response")
            ELSE IF jsonMatch(response.text) = <<>>
            THEN Failure("no menu generated")
            ELSE IF ~IsJsonObject(jsonMatch(response.text))
            THEN Failure("SyntaxError")
            ELSE MkGuestMenu(response.parsed, guestCount, budget, newId, t)]

GuestCounts == {1, 6}
Budgets == {"economy", "standard", "premium"}

\* The objects answered to a menu that is then imported.
CartObjects ==
    {[o \in {"appetizers", "mains", "desserts", "beverages", "totalCost",
             "perPersonCost", "shoppingList"} |->
        IF o = "shoppingList" THEN List(names) ELSE Missing] :
            names \in {<<"rice", "rice">>, <<"rice", "meat">>}}

\* getShoppingList: a failed read is an empty list.
getShoppingList(stored, readOk) == IF readOk THEN stored ELSE <<>>

\* An addItem / addItems call that has not read the stored list yet.
NewAdd(items) == [items |-> items, phase |-> "read", current |-> <<>>]

RemoveAt(seq, i) == SubSeq(seq, 1, i - 1) \o SubSeq(seq, i + 1, Len(seq))

\* MealPlanScreen with nothing generated.
NothingGenerated ==
    /\ StorageIdle
    /\ ExpiryIdle
    /\ InventoryIdle
    /\ tz = [shift |-> 0, day |-> 0]
    /\ now = HoursPerDay \div 2
    /\ op = "mount"
    /\ storedProducts = <<>>
    /\ screenProducts = <<>>
    /\ loaded = FALSE
    /\ selectedIds = {}
    /\ toggled = FALSE
    /\ servings = DefaultServings
    /\ isGenerating = FALSE
    /\ sent = <<>>
    /\ alert = "none"
    /\ navigated = FALSE
    /\ taps = 0
    /\ faults = 0
    /\ parts = NoParts
    /\ parsed = NoParsed
    /\ menu = NoMenu
    /\ pendingAdds = <<>>
    /\ ownItems = 0
    /\ presence = "focused"
    /\ screens = NoScreens

\* ... and the shopping list empty.
GuestScreenIdle == NothingGenerated /\ shoppingList = <<>> /\ OtherIdle

\* handleGenerateGuestMenu without a configured key: an alert, no request.
GuestMenuUnconfigured ==
    /\ menu = NoMenu
    /\ calls < MaxMenus
    /\ ~isConfigured(apiKey)
    /\ calls' = calls + 1
    /\ alert' = "api key not configured"
    /\ op' = "guestMenuUnconfigured"
    /\ UNCHANGED <<otherVars, tz, now, expiryVars, inventoryVars, request, result,
                   history, savedRecipes, arg, threw, nextId, stats,
                   storedProducts, screenProducts, loaded, selectedIds,
                   toggled, servings, apiKey, isGenerating, sent, navigated,
                   taps, faults, parts, parsed, guestVars, presence, screens>>

\* handleGenerateGuestMenu with the form's guestCount and budget, answered
\* with one of the objects: setGuestMenu(menu).
GuestMenuAnswered(objects) ==
    /\ menu = NoMenu
    /\ calls < MaxMenus
    /\ isConfigured(apiKey)
    /\ calls' = calls + 1
    /\ \E object \in objects :
        LET out == generateGuestMenuWithGemini(guest.guestCount, guest.budget,
                        apiKey, HttpOkObject(<<"{", "m", "}">>, object),
                        nextId, now)
        IN  /\ parsed' = object
            /\ request' = out.request
            /\ result' = out.result
            /\ menu' = out.result
            /\ nextId' = nextId + IdsUsed(out.result)
    /\ op' = "guestMenuGenerated"
    /\ UNCHANGED <<otherVars, tz, now, expiryVars, inventoryVars, history, savedRecipes,
                   arg, threw, stats, screenVars, parts, guest, shoppingList,
                   pendingAdds, ownItems, presence, screens>>

GuestMenuGenerated == GuestMenuAnswered(GuestObjects)

GuestMenuForCart == GuestMenuAnswered(CartObjects)

\* handleGenerateGuestMenu with the request failing: the alert, no menu.
GuestMenuFails ==
    /\ menu = NoMenu
    /\ calls < MaxMenus
    /\ isConfigured(apiKey)
    /\ calls' = calls + 1
    /\ LET out == generateGuestMenuWithGemini(guest.guestCount, guest.budget,
                        apiKey, NetworkError, nextId, now)
       IN  /\ request' = out.request
           /\ result' = out.result
           /\ alert' = out.result.message
    /\ op' = "guestMenuFails"
    /\ UNCHANGED <<otherVars, tz, now, expiryVars, inventoryVars, history, savedRecipes,
                   arg, threw, nextId, stats, storedProducts, screenProducts,
                   loaded, selectedIds, toggled, servings, apiKey,
                   isGenerating, sent, navigated, taps, faults, parts, parsed,
                   guestVars, presence, screens>>

\* "New menu": setGuestMenu(null).
ResetGuestMenu ==
    /\ menu # NoMenu
    /\ menu' = NoMenu
    /\ op' = "resetGuestMenu"
    /\ UNCHANGED <<otherVars, tz, now, expiryVars, inventoryVars, request, result,
                   storageVars, screenVars, parts, parsed, guest,
                   shoppingList, pendingAdds, ownItems, presence, screens>>

InitGuestCost ==
    /\ GuestScreenIdle
    /\ guest \in [guestCount : GuestCounts, budget : Budgets]
    /\ apiKey \in {"short-key", "valid-api-key"}

NextGuestCost ==
    \/ GuestMenuUnconfigured
    \/ GuestMenuGenerated
    \/ GuestMenuFails
    \/ ResetGuestMenu

SpecGuestCost == InitGuestCost /\ [][NextGuestCost]_vars

\* C15: when the guest menu response omits perPersonCost, the perPersonCost
\* returned equals the returned totalCost divided by guestCount.
C15_PerPersonFromTotal ==
    (menu.kind = "menu" /\ parsed.perPersonCost = Missing) =>
        menu.perPersonCost * guest.guestCount = menu.totalCost

----------------------------------------------------------------------------
(* SpecShopping: the shopping list under manual additions, "add missing    *)
(* ingredients" and imports of a generated menu's list.                    *)

\* handleAddGuestListToCart: one addItem per entry of the menu's shopping
\* list, none of them awaited.
handleAddGuestListToCart ==
    /\ menu.kind = "menu"
    /\ taps < MaxImports
    /\ Len(pendingAdds) + Len(menu.shoppingList) <= MaxPending
    /\ taps' = taps + 1
    /\ pendingAdds' = pendingAdds \o
            [i \in 1..Len(menu.shoppingList) |-> NewAdd(<<menu.shoppingList[i]>>)]
    /\ alert' = "added"
    /\ op' = "addGuestListToCart"
    /\ UNCHANGED <<otherVars, tz, now, expiryVars, inventoryVars, request, result,
                   storageVars, storedProducts, screenProducts, loaded,
                   selectedIds, toggled, servings, apiKey, isGenerating, sent,
                   navigated, faults, parts, parsed, guest, menu,
                   shoppingList, ownItems, presence, screens>>

\* AddShoppingItemScreen.handleSave: one addItem with a new id.
handleSave ==
    /\ ownItems < MaxOwnItems
    /\ Len(pendingAdds) < MaxPending
    /\ ownItems' = ownItems + 1
    /\ \E name \in {"rice", "salt"} :
        pendingAdds' = Append(pendingAdds,
            NewAdd(<<[id |-> nextId, name |-> name, checked |-> FALSE]>>))
    /\ nextId' = nextId + 1
    /\ op' = "addManual"
    /\ UNCHANGED <<otherVars, tz, now, expiryVars, inventoryVars, request, result,
                   history, savedRecipes, arg, threw, calls, stats,
                   screenVars, parts, parsed, guest, menu, shoppingList,
                   presence, screens>>

\* RecipeDetailScreen.handleAddMissing: one addItems with a new id for each
\* missing ingredient.
handleAddMissing ==
    /\ ownItems < MaxOwnItems
    /\ Len(pendingAdds) < MaxPending
    /\ ownItems' = ownItems + 1
    /\ pendingAdds' = Append(pendingAdds,
            NewAdd(<<[id |-> nextId, name |-> "rice", checked |-> FALSE],
                     [id |-> nextId + 1, name |-> "rice", checked |-> FALSE]>>))
    /\ nextId' = nextId + 2
    /\ alert' = "added"
    /\ op' = "addMissing"
    /\ UNCHANGED <<otherVars, tz, now, expiryVars, inventoryVars, request, result,
                   history, savedRecipes, arg, threw, calls, stats,
                   storedProducts, screenProducts, loaded, selectedIds,
                   toggled, servings, apiKey, isGenerating, sent, navigated,
                   taps, faults, parts, parsed, guest, menu, shoppingList,
                   presence, screens>>

\* addShoppingItem / addItems, first half: the stored list is read.
AddItemRead ==
    /\ \E i \in 1..Len(pendingAdds), readOk \in BOOLEAN :
        /\ pendingAdds[i].phase = "read"
        /\ ~readOk => faults < MaxFaults
        /\ faults' = IF readOk THEN faults ELSE faults + 1
        /\ pendingAdds' = [pendingAdds EXCEPT ![i] =
                [@ EXCEPT !.phase = "write",
                          !.current = getShoppingList(shoppingList, readOk)]]
    /\ op' = "addItemRead"
    /\ UNCHANGED <<otherVars, tz, now, expiryVars, inventoryVars, request, result,
                   storageVars, storedProducts, screenProducts, loaded,
                   selectedIds, toggled, servings, apiKey, isGenerating, sent,
                   alert, navigated, taps, parts, parsed, guest, menu,
                   shoppingList, ownItems, presence, screens>>

\* addShoppingItem / addItems, second half: the list read, with the new
\* entries at its end, is written back; a failed write is swallowed.
AddItemWrite ==
    /\ \E i \in 1..Len(pendingAdds), writeOk \in BOOLEAN :
        /\ pendingAdds[i].phase = "write"
        /\ ~writeOk => faults < MaxFaults
        /\ faults' = IF writeOk THEN faults ELSE faults + 1
        /\ shoppingList' = IF writeOk
                           THEN pendingAdds[i].current \o pendingAdds[i].items
                           ELSE shoppingList
        /\ pendingAdds' = RemoveAt(pendingAdds, i)
    /\ op' = "addItemWrite"
    /\ UNCHANGED <<otherVars, tz, now, expiryVars, inventoryVars, request, result,
                   storageVars, storedProducts, screenProducts, loaded,
                   selectedIds, toggled, servings, apiKey, isGenerating, sent,
                   alert, navigated, taps, parts, parsed, guest, menu,
                   ownItems, presence, screens>>

InitShopping ==
    /\ GuestScreenIdle
    /\ guest = NoGuest
    /\ apiKey = "valid-api-key"

NextShopping ==
    \/ GuestMenuForCart
    \/ ResetGuestMenu
    \/ handleAddGuestListToCart
    \/ handleSave
    \/ handleAddMissing
    \/ AddItemRead
    \/ AddItemWrite

SpecShopping == InitShopping /\ [][NextShopping]_vars

\* C18: the stored shopping list never holds two entries with the same id,
\* whatever was added by hand, from a recipe or from a generated menu, the
\* same menu imported twice included.
C18_ShoppingIdsUnique ==
    \A i, k \in 1..Len(shoppingList) :
        shoppingList[i].id = shoppingList[k].id => i = k

\* C22: once every addItem an import of the menu's list started is over,
\* and no storage call failed, each entry of the list is in the stored
\* shopping list, however the reads and writes of the calls interleaved.
C22_ImportedItemsStored ==
    (menu.kind = "menu" /\ taps > 0 /\ pendingAdds = <<>> /\ faults = 0) =>
        \A i \in 1..Len(menu.shoppingList) :
            \E k \in 1..Len(shoppingList) :
                shoppingList[k].id = menu.shoppingList[i].id

----------------------------------------------------------------------------
(* SpecScan: a photo analysed by the collaborator; each product of the     *)
(* answer gets an id, a category and an expiry date.                       *)

MaxScanned == 2         \* products in one answer of the image analysis

Categories ==
    {"dairy", "meat", "vegetables", "fruits", "grains", "beverages",
     "condiments", "frozen", "bakery", "other"}

\* The key a JSON value is looked up under (ToString): the string itself,
\* for an array the elements joined by commas.
PropertyKey(x) ==
    IF x.t = "string" THEN x.s
    ELSE IF x.t = "array" /\ Len(x.l) = 1 THEN x.l[1]
    ELSE "undefined"

\* undefined, where a number of days is expected
NoDays == 0 - 1000

\* getDefaultExpiryDays: defaults[category], undefined for a key the table
\* does not have.
getDefaultExpiryDays(category) ==
    LET key == PropertyKey(category)
    IN  CASE key \in {"dairy", "vegetables", "fruits"} -> 7
          [] key \in {"meat", "bakery"} -> 5
          [] key = "grains" -> 180
          [] key = "beverages" -> 30
          [] key \in {"condiments", "frozen"} -> 90
          [] key = "other" -> 14
          [] OTHER -> NoDays

\* addDaysToDate: setDate(getDate() + days) keeps the local time of day;
\* with days undefined the result is an Invalid Date.
addDaysToDate(z, t, addedDays) ==
    IF addedDays = NoDays THEN [valid |-> FALSE, at |-> 0]
    ELSE [valid |-> TRUE,
          at |-> Midnight(z, DayOf(z, t) + addedDays) + (t - setHours0(z, t))]

\* One product of the answer, the category kept as the answer gave it.
MkScanned(z, p, newId, t) ==
    LET category == OrElse(p.category, Str("other"))
    IN  [id |-> newId,
         name |-> OrElse(p.name, Str("unknown product")).s,
         category |-> category,
         expiryDate |-> addDaysToDate(z, t, getDefaultExpiryDays(category)),
         addedAt |-> t]

\* (parsed.products || []).map(...): toISOString throws a RangeError on an
\* Invalid Date, and the whole call rejects.
scannedProducts(z, object, newId, t) ==
    LET items == OrElse(object.products, List(<<>>)).l
        made == [i \in 1..Len(items) |-> MkScanned(z, items[i], newId + i - 1, t)]
    IN  IF \E i \in 1..Len(made) : ~made[i].expiryDate.valid
        THEN Failure("RangeError")
        ELSE [kind |-> "products", products |-> made]

\* analyzeImageWithGemini(imageBase64, apiKey): the request it sends (none
\* without a key) and its outcome.
analyzeImageWithGemini(z, key, response, newId, t) ==
    IF key = ""
    THEN [request |-> NoRequest, result |-> Failure("api key not configured")]
    ELSE [request |-> [kind |-> "sent", image |-> TRUE],
          result |->
            IF response.kind = "networkError"
            THEN Failure("network request failed")
            ELSE IF ~response.ok THEN Failure("api error")
            ELSE IF response.text = <<>> THEN Failure("empty response")
            ELSE IF jsonMatch(response.text) = <<>>
            THEN Failure("no products recognized")
            ELSE IF ~IsJsonObject(jsonMatch(response.text))
            THEN Failure("SyntaxError")
            ELSE scannedProducts(z, response.parsed, newId, t)]

\* The category member of a product in the answer.
ScanCategories ==
    {Missing, Str("dairy"), Str("grains"), Str("seafood"), List(<<"dairy">>)}

ScanItems == [name : {Str("milk")}, category : ScanCategories]

ScanObjects ==
    {[products |-> Missing]}
        \cup {[products |-> List(items)] :
                items \in UNION {[1..n -> ScanItems] : n \in 0..MaxScanned}}

ScanResponses ==
    {NetworkError, HttpOkObject(<<"w">>, [products |-> Missing])}
        \cup {HttpOkObject(<<"{", "m", "}">>, object) : object \in ScanObjects}

InitScan ==
    /\ StorageIdle
    /\ ExpiryIdle
    /\ InventoryIdle
    /\ GuestIdle
    /\ tz \in ListZones
    /\ now \in ListNows
    /\ op = "mount"
    /\ storedProducts = <<>>
    /\ screenProducts = <<>>
    /\ loaded = FALSE
    /\ selectedIds = {}
    /\ toggled = FALSE
    /\ servings = DefaultServings
    /\ apiKey \in ApiKeys
    /\ isGenerating = FALSE
    /\ sent = <<>>
    /\ alert = "none"
    /\ navigated = FALSE
    /\ taps = 0
    /\ faults = 0
    /\ parts = NoParts
    /\ parsed = NoParsed
    /\ presence = "focused"
    /\ screens = NoScreens /\ OtherIdle

\* ScanScreen.processImage: without a configured key an alert; otherwise the
\* analysis, then the result screen, or an alert when nothing was found or
\* the analysis failed.
processImage ==
    /\ ~navigated
    /\ calls < MaxAttempts
    /\ calls' = calls + 1
    /\ IF ~isConfigured(apiKey)
       THEN /\ alert' = "api key not configured"
            /\ request' = NoRequest
            /\ UNCHANGED <<result, parsed, nextId, navigated>>
       ELSE \E response \in ScanResponses :
            LET out == analyzeImageWithGemini(tz, apiKey, response, nextId, now)
            IN  /\ request' = out.request
                /\ result' = out.result
                /\ parsed' = IF out.result.kind = "products"
                                \/ out.result.message = "RangeError"
                             THEN response.parsed ELSE NoParsed
                /\ IF out.result.kind = "error"
                   THEN /\ alert' = out.result.message
                        /\ UNCHANGED <<nextId, navigated>>
                   ELSE /\ nextId' = nextId + Len(out.result.products)
                        /\ navigated' = (Len(out.result.products) > 0)
                        /\ alert' = IF Len(out.result.products) = 0
                                    THEN "no products found" ELSE alert
    /\ op' = "processImage"
    /\ UNCHANGED <<otherVars, tz, now, expiryVars, inventoryVars, history, savedRecipes,
                   arg, threw, stats, storedProducts, screenProducts, loaded,
                   selectedIds, toggled, servings, apiKey, isGenerating, sent,
                   taps, faults, parts, guestVars, presence, screens>>

\* The scanner is opened again after a result.
ScanAgain ==
    /\ navigated
    /\ navigated' = FALSE
    /\ op' = "scanAgain"
    /\ UNCHANGED <<otherVars, tz, now, expiryVars, inventoryVars, request, result,
                   storageVars, storedProducts, screenProducts, loaded,
                   selectedIds, toggled, servings, apiKey, isGenerating, sent,
                   alert, taps, faults, parts, parsed, guestVars, presence, screens>>

NextScan == processImage \/ ScanAgain

SpecScan == InitScan /\ [][NextScan]_vars

\* C19: every product returned by analyzeImageWithGemini has a category of
\* the ten fixed ones, any other category of the answer having become
\* "other", and a present, parseable expiry date, whatever category values
\* the collaborator returned.
C19_CategoryCoerced ==
    (op = "processImage" /\ request # NoRequest /\ parsed # NoParsed) =>
        LET items == OrElse(parsed.products, List(<<>>)).l
        IN  /\ result.kind = "products"
            /\ Len(result.products) = Len(items)
            /\ \A i \in 1..Len(items) :
                /\ result.products[i].category.t = "string"
                /\ result.products[i].category.s \in Categories
                /\ result.products[i].category.s =
                        IF items[i].category.t = "string"
                           /\ items[i].category.s \in Categories
                        THEN items[i].category.s ELSE "other"
                /\ result.products[i].expiryDate.valid

----------------------------------------------------------------------------
(* SpecCredential: the operations of the UI that call the collaborator,    *)
(* under the keys the credential provider can hold.                        *)

\* The keys typed into the settings screen.
EnteredKeys == ApiKeys \cup {"ten-chars!"}

\* Math.round(a / b) for a >= 0
Round(a, b) == (2 * a + b) \div (2 * b)

\* GuestMenuScreen: formattedMenu
formatMenu(m, guestCount) ==
    LET Dishes(course, share) ==
            [i \in 1..Len(course) |->
                [name |-> course[i].title, portions |-> guestCount,
                 cost |-> Round(m.totalCost, share)]]
    IN  [kind |-> "formatted",
         appetizers |-> Dishes(m.appetizers, 8),
         mains |-> Dishes(m.mains, 4),
         desserts |-> Dishes(m.desserts, 10),
         beverages |-> [i \in 1..Len(m.beverages) |->
                        [name |-> m.beverages[i], portions |-> guestCount,
                         cost |-> Round(m.totalCost, 12)]],
         totalCost |-> m.totalCost,
         shoppingList |-> [i \in 1..Len(m.shoppingList) |->
                            [name |-> m.shoppingList[i].name]]]

\* chatWithGemini(message, apiKey, context): the request it sends (none
\* without a key) and its outcome.
chatWithGemini(key, response) ==
    IF key = ""
    THEN [request |-> NoRequest, result |-> Failure("api key not configured")]
    ELSE [request |-> [kind |-> "sent", chat |-> TRUE],
          result |->
            IF response.kind = "networkError"
            THEN Failure("network request failed")
            ELSE IF ~response.ok THEN Failure("service unavailable")
            ELSE IF response.text = <<>> THEN Failure("no answer")
            ELSE [kind |-> "text", text |-> response.text]]

ChatResponses ==
    {NetworkError, HttpError, HttpOkObject(<<"w">>, EmptyObject)}

InitCredential ==
    /\ GuestScreenIdle
    /\ guest = NoGuest
    /\ apiKey \in ApiKeys

\* ApiKeyContext.setApiKey(key): rejected below ten characters or when the
\* write fails, otherwise stored and made the provider's key.
setApiKey ==
    /\ taps < MaxTaps
    /\ taps' = taps + 1
    /\ ~isGenerating
    /\ \E key \in EnteredKeys, writeOk \in BOOLEAN :
        IF KeyLength(key) < 10 \/ ~writeOk
        THEN /\ threw' = TRUE
             /\ UNCHANGED <<apiKey, storedKey>>
        ELSE /\ threw' = FALSE
             /\ storedKey' = key
             /\ apiKey' = key
    /\ op' = "setApiKey"
    /\ UNCHANGED <<mealPlan, builtInKey, form, tz, now, expiryVars, inventoryVars, request, result,
                   history, savedRecipes, arg, nextId, calls, stats,
                   storedProducts, screenProducts, loaded, selectedIds,
                   toggled, servings, isGenerating, sent, alert, navigated,
                   faults, parts, parsed, guestVars, presence, screens>>

\* GuestMenuScreen.handleGenerate: no check of its own before the call.
GuestMenuScreen_handleGenerate ==
    /\ ~isGenerating
    /\ calls < MaxAttempts
    /\ calls' = calls + 1
    /\ \E response \in {NetworkError,
                        HttpOkObject(<<"{", "m", "}">>,
                                     CHOOSE o \in CartObjects : TRUE)} :
        LET out == generateGuestMenuWithGemini(NoGuest.guestCount,
                        NoGuest.budget, apiKey, response, nextId, now)
        IN  /\ request' = out.request
            /\ result' = out.result
            /\ IF out.result.kind = "menu"
               THEN /\ screens' = [screens EXCEPT
                           !.guestMenu = formatMenu(out.result, NoGuest.guestCount)]
                    /\ nextId' = nextId + IdsUsed(out.result)
                    /\ alert' = alert
               ELSE /\ alert' = "generation error"
                    /\ UNCHANGED <<screens, nextId>>
    /\ op' = "guestScreenGenerate"
    /\ UNCHANGED <<otherVars, tz, now, expiryVars, inventoryVars, history, savedRecipes,
                   arg, threw, stats, storedProducts, screenProducts, loaded,
                   selectedIds, toggled, servings, apiKey, isGenerating, sent,
                   navigated, taps, faults, parts, parsed, guestVars, presence>>

\* ChatScreen.sendMessage: without a configured key the assistant's notice;
\* otherwise the user's message, then the answer or an apology.
ChatScreen_sendMessage ==
    /\ ~isGenerating
    /\ calls < MaxAttempts
    /\ calls' = calls + 1
    /\ IF ~isConfigured(apiKey)
       THEN /\ screens' = [screens EXCEPT
                   !.chat = Append(@, "api key not configured")]
            /\ request' = NoRequest
            /\ UNCHANGED result
       ELSE \E response \in ChatResponses :
            LET out == chatWithGemini(apiKey, response)
            IN  /\ request' = out.request
                /\ result' = out.result
                /\ screens' = [screens EXCEPT
                       !.chat = @ \o <<"user",
                                       IF out.result.kind = "text"
                                       THEN "assistant" ELSE "apology">>]
    /\ op' = "chatSend"
    /\ UNCHANGED <<otherVars, tz, now, expiryVars, inventoryVars, history, savedRecipes,
                   arg, threw, nextId, stats, storedProducts, screenProducts,
                   loaded, selectedIds, toggled, servings, apiKey,
                   isGenerating, sent, alert, navigated, taps, faults, parts,
                   parsed, guestVars, presence>>

\* ChefChatScreen.sendMessage: the notice only for an empty key; otherwise
\* the user's message and its own fetch, then the answer or an apology.
ChefChatScreen_sendMessage ==
    /\ ~isGenerating
    /\ calls < MaxAttempts
    /\ calls' = calls + 1
    /\ IF apiKey = ""
       THEN /\ screens' = [screens EXCEPT !.chef = Append(@, "unavailable")]
            /\ request' = NoRequest
            /\ UNCHANGED result
       ELSE \E response \in ChatResponses :
            /\ request' = [kind |-> "sent", chat |-> TRUE]
            /\ result' = IF response.kind = "networkError" \/ ~response.ok
                         THEN Failure("chef chat error")
                         ELSE [kind |-> "text", text |-> response.text]
            /\ screens' = [screens EXCEPT
                   !.chef = @ \o <<"user",
                                   IF result'.kind = "text"
                                   THEN "assistant" ELSE "apology">>]
    /\ op' = "chefChatSend"
    /\ UNCHANGED <<otherVars, tz, now, expiryVars, inventoryVars, history, savedRecipes,
                   arg, threw, nextId, stats, storedProducts, screenProducts,
                   loaded, selectedIds, toggled, servings, apiKey,
                   isGenerating, sent, alert, navigated, taps, faults, parts,
                   parsed, guestVars, presence>>

NextCredential ==
    \/ setApiKey
    \/ processImage
    \/ GenerateUnconfigured
    \/ StartGenerate
    \/ FinishGenerate
    \/ GuestMenuUnconfigured
    \/ GuestMenuForCart
    \/ GuestMenuFails
    \/ GuestMenuScreen_handleGenerate
    \/ ChatScreen_sendMessage
    \/ ChefChatScreen_sendMessage

SpecCredential == InitCredential /\ [][NextCredential]_vars

\* The steps that start an operation of the collaborator.
StartsOperation(o) ==
    o \in {"processImage", "generateUnconfigured", "startGenerate",
           "guestMenuUnconfigured", "guestMenuGenerated", "guestMenuFails",
           "guestScreenGenerate", "chatSend", "chefChatSend"}

\* The failure of the operation just started is on the screen.
FailureShown ==
    \/ alert \in {"api key not configured", "generation error"}
    \/ op = "chatSend" /\ screens.chat # <<>>
          /\ screens.chat[Len(screens.chat)] = "api key not configured"
    \/ op = "chefChatSend" /\ screens.chef # <<>>
          /\ screens.chef[Len(screens.chef)] = "unavailable"

\* C16: whichever generation operation the UI starts (image analysis,
\* recipe, guest menu, chat), when the key is empty or not reported as
\* configured, the failure is reported and no network request is issued.
C16_NoRequestWithoutCredential ==
    [][(StartsOperation(op') /\ ~isConfigured(apiKey)) =>
            (request' \in {NoRequest, request} /\ FailureShown')]_vars

----------------------------------------------------------------------------
(* SpecStats: the statistics over repeated generations, the collaborator   *)
(* free to put any number in the recipe's cookTime.                        *)

StatKeys ==
    {"moneySaved", "timeSaved", "wastePrevented", "recipesGenerated",
     "productsScanned"}

\* Answers whose cookTime is missing, positive or negative.
StatResponses ==
    {HttpOk(<<"{", "m", "}">>, 0), HttpOk(<<"{", "m", "}">>, 20),
     HttpOk(<<"{", "m", "}">>, 0 - 20)}

FinishGenerateAnyCookTime == FinishGenerateWith(StatResponses)

InitStats ==
    /\ InitScreen
    /\ apiKey = "valid-api-key"

NextStats ==
    \/ LoadProductsDone
    \/ StartGenerate
    \/ FinishGenerateAnyCookTime

SpecStats == InitStats /\ [][NextStats]_vars

\* C17: no operation other than clearAllData lowers a cumulative
\* statistic, whatever recipe the collaborator returned.
C17_StatsNeverDecrease ==
    [][\A k \in StatKeys :
          getUserStats(stats', TRUE)[k] >= getUserStats(stats, TRUE)[k]]_vars

----------------------------------------------------------------------------
(* SpecLeave: the user leaves the generation screen while the request is   *)
(* in flight, for another tab (the screen stays mounted) or back to the    *)
(* previous screen (it is unmounted).                                      *)

LeaveScreen ==
    /\ isGenerating
    /\ presence = "focused"
    /\ presence' \in {"blurred", "unmounted"}
    /\ op' = "leave"
    /\ UNCHANGED <<otherVars, tz, now, expiryVars, inventoryVars, request, result,
                   storageVars, storedProducts, screenProducts, loaded,
                   selectedIds, toggled, servings, apiKey, isGenerating, sent,
                   alert, navigated, taps, faults, parts, parsed, guestVars,
                   screens>>

InitLeave ==
    /\ InitScreen
    /\ apiKey = "valid-api-key"

NextLeave ==
    \/ LoadProductsDone
    \/ toggleProduct
    \/ StartGenerate
    \/ LeaveScreen
    \/ FinishGenerate

SpecLeave == InitLeave /\ [][NextLeave]_vars

\* What the screen shows of the generation, while it exists.
ScreenState ==
    [mounted |-> presence # "unmounted",
     isGenerating |-> presence # "unmounted" /\ isGenerating]

\* C20: the answer to a request whose screen was left or unmounted in the
\* meantime is discarded: no state of that screen changes and nothing is
\* navigated.
C20_StaleResponseDiscarded ==
    [][(op' = "finishGenerate" /\ presence # "focused") =>
            (ScreenState' = ScreenState /\ navigated' = navigated)]_vars

----------------------------------------------------------------------------
(* SpecMealPlan: the week tab of MealPlanScreen. handleGeneratePlan and    *)
(* handleGenerateMeal copy only the outer array of weekPlan, so every copy *)
(* shares the day and meal objects: the plan is one grid of slots that     *)
(* both handlers write in place.                                           *)

PlanDays == 2       \* days of the plan (7 in the program)
PlanMeals == 2      \* meals of a day (3 in the program)
MaxMealCalls == 2   \* handleGenerateMeal calls in flight together
MaxPresses == 3     \* presses of the screen's generate buttons

PlanSlots == 1..(PlanDays * PlanMeals)

\* The slot of meal mealIndex on day dayIndex, in the order of the loops.
SlotOf(dayIndex, mealIndex) == dayIndex * PlanMeals + mealIndex + 1

\* The first slot from k on without a recipe, 0 when the loops are over.
NextEmptySlot(plan, k) ==
    LET empty == {j \in PlanSlots : j >= k /\ plan[j] = 0}
    IN  IF empty = {} THEN 0 ELSE CHOOSE j \in empty : \A i \in empty : j <= i

MealResponses == {NetworkError, HttpOk(<<"{", "m", "}">>, 20)}

\* Generation requests of the screen that are in flight.
InFlight(mp) == (IF mp.planAt # 0 THEN 1 ELSE 0) + Len(mp.meals)

InitMealPlan ==
    /\ ScreenMounted
    /\ storedProducts = <<>>
    /\ apiKey \in {"short-key", "valid-api-key"}
    /\ mealPlan = [kind |-> "plan",
                   weekPlan |-> [k \in PlanSlots |-> 0],
                   selectedDay |-> 0,
                   isGenerating |-> FALSE,
                   generatingMeal |-> -1,
                   planAt |-> 0,
                   meals |-> <<>>]
    /\ storedKey = ""
    /\ builtInKey = ""
    /\ form = NoForm

\* handleGeneratePlan up to its first await: the loops run to the first
\* empty slot and send its request; with no empty slot they run through.
handleGeneratePlan ==
    /\ ~mealPlan.isGenerating
    /\ calls < MaxPresses
    /\ calls' = calls + 1
    /\ IF ~isConfigured(apiKey)
       THEN /\ alert' = "api key not configured"
            /\ UNCHANGED mealPlan
       ELSE LET k == NextEmptySlot(mealPlan.weekPlan, 1)
            IN  /\ mealPlan' = [mealPlan EXCEPT !.planAt = k,
                                                !.isGenerating = (k # 0)]
                /\ alert' = IF k = 0 THEN "plan created" ELSE alert
    /\ op' = "generatePlan"
    /\ UNCHANGED <<storedKey, builtInKey, form, tz, now, expiryVars, inventoryVars,
                   request, result, history, savedRecipes, arg, threw, nextId,
                   stats, storedProducts, screenProducts, loaded, selectedIds,
                   toggled, servings, apiKey, isGenerating, sent, navigated,
                   taps, faults, parts, parsed, guestVars, presence, screens>>

\* handleGeneratePlan from one answer to the next await: the recipe goes
\* into the slot the request was sent for, the plan is displayed, and the
\* loops go on to the next slot that is empty now; a rejection ends them.
PlanAnswer ==
    /\ mealPlan.planAt # 0
    /\ \E response \in MealResponses :
        LET out == generateRecipeWithGemini(storedProducts, apiKey,
                        [servings |-> 4], response, nextId, now).result
            filled == [mealPlan.weekPlan EXCEPT ![mealPlan.planAt] = out.recipe.id]
            k == NextEmptySlot(filled, mealPlan.planAt + 1)
        IN  IF out.kind = "error"
            THEN /\ mealPlan' = [mealPlan EXCEPT !.planAt = 0,
                                                 !.isGenerating = FALSE]
                 /\ alert' = out.message
                 /\ UNCHANGED nextId
            ELSE /\ mealPlan' = [mealPlan EXCEPT !.weekPlan = filled,
                                                 !.planAt = k,
                                                 !.isGenerating = (k # 0)]
                 /\ alert' = IF k = 0 THEN "plan created" ELSE alert
                 /\ nextId' = nextId + 1
    /\ op' = "planAnswer"
    /\ UNCHANGED <<storedKey, builtInKey, form, tz, now, expiryVars, inventoryVars,
                   request, result, history, savedRecipes, arg, threw, calls,
                   stats, storedProducts, screenProducts, loaded, selectedIds,
                   toggled, servings, apiKey, isGenerating, sent, navigated,
                   taps, faults, parts, parsed, guestVars, presence, screens>>

\* handleGenerateMeal(mealType) up to its await, from the card of an empty
\* slot of the selected day; the card is disabled only while generatingMeal
\* is its own meal.
handleGenerateMeal ==
    /\ mealPlan.kind = "plan"
    /\ calls < MaxPresses
    /\ calls' = calls + 1
    /\ \E mealIndex \in 0..(PlanMeals - 1) :
        /\ mealPlan.weekPlan[SlotOf(mealPlan.selectedDay, mealIndex)] = 0
        /\ mealPlan.generatingMeal # mealIndex
        /\ IF ~isConfigured(apiKey)
           THEN /\ alert' = "api key not configured"
                /\ UNCHANGED mealPlan
           ELSE /\ Len(mealPlan.meals) < MaxMealCalls
                /\ mealPlan' = [mealPlan EXCEPT
                        !.generatingMeal = mealIndex,
                        !.meals = Append(@, SlotOf(mealPlan.selectedDay, mealIndex))]
                /\ UNCHANGED alert
    /\ op' = "generateMeal"
    /\ UNCHANGED <<storedKey, builtInKey, form, tz, now, expiryVars, inventoryVars,
                   request, result, history, savedRecipes, arg, threw, nextId,
                   stats, storedProducts, screenProducts, loaded, selectedIds,
                   toggled, servings, apiKey, isGenerating, sent, navigated,
                   taps, faults, parts, parsed, guestVars, presence, screens>>

\* handleGenerateMeal from its answer on: the recipe goes into the slot of
\* the day selected at the press, and generatingMeal is cleared.
MealAnswer ==
    /\ mealPlan.kind = "plan"
    /\ \E i \in 1..Len(mealPlan.meals), response \in MealResponses :
        LET out == generateRecipeWithGemini(storedProducts, apiKey,
                        [servings |-> 4], response, nextId, now).result
            rest == [j \in 1..(Len(mealPlan.meals) - 1) |->
                        IF j < i THEN mealPlan.meals[j] ELSE mealPlan.meals[j + 1]]
        IN  IF out.kind = "error"
            THEN /\ mealPlan' = [mealPlan EXCEPT !.meals = rest,
                                                 !.generatingMeal = -1]
                 /\ alert' = out.message
                 /\ UNCHANGED nextId
            ELSE /\ mealPlan' = [mealPlan EXCEPT
                        !.weekPlan[mealPlan.meals[i]] = out.recipe.id,
                        !.meals = rest,
                        !.generatingMeal = -1]
                 /\ nextId' = nextId + 1
                 /\ UNCHANGED alert
    /\ op' = "mealAnswer"
    /\ UNCHANGED <<storedKey, builtInKey, form, tz, now, expiryVars, inventoryVars,
                   request, result, history, savedRecipes, arg, threw, calls,
                   stats, storedProducts, screenProducts, loaded, selectedIds,
                   toggled, servings, apiKey, isGenerating, sent, navigated,
                   taps, faults, parts, parsed, guestVars, presence, screens>>

\* DaySelector: setSelectedDay
SelectDay ==
    /\ mealPlan.kind = "plan"
    /\ \E d \in 0..(PlanDays - 1) :
        /\ d # mealPlan.selectedDay
        /\ mealPlan' = [mealPlan EXCEPT !.selectedDay = d]
    /\ op' = "selectDay"
    /\ UNCHANGED <<storedKey, builtInKey, form, tz, now, expiryVars, inventoryVars,
                   request, result, storageVars, screenVars, parts, parsed,
                   guestVars, presence, screens>>

NextMealPlan ==
    \/ handleGeneratePlan
    \/ PlanAnswer
    \/ handleGenerateMeal
    \/ MealAnswer
    \/ SelectDay

SpecMealPlan == InitMealPlan /\ [][NextMealPlan]_vars

\* C21: the screen has at most one generation request in flight, a slot's
\* request is sent only once the previous slot's request has completed,
\* and each completed slot is displayed at once.
C21_OneRequestAtATime ==
    mealPlan.kind = "plan" => InFlight(mealPlan) <= 1

\* C27: an answer to handleGeneratePlan fills an empty slot only: a slot
\* that holds a recipe when the answer arrives keeps it.
C27_PlanKeepsFilledSlots ==
    [][op' = "planAnswer" =>
        \A k \in PlanSlots :
            mealPlan.weekPlan[k] # 0 =>
                mealPlan'.weekPlan[k] = mealPlan.weekPlan[k]]_vars
----------------------------------------------------------------------------
(* SpecToggle: ShoppingScreen ticking entries of the stored shopping     *)
(* list, one toggleItem at a time.                                         *)

MaxToggles == 3     \* toggleItem calls in one session
MaxListed == 3      \* entries of the stored shopping list

ToggleIds == {1, 2, 3}

\* Stored lists: entries with ids 1 and 2, an id twice included (the same
\* menu imported twice), ticked or not.
ToggleLists ==
    UNION {[1..n -> [id : {1, 2}, name : {"rice"}, checked : BOOLEAN]] :
            n \in 0..MaxListed}

\* toggleShoppingItem setting the flag rather than inverting it.
toggleShoppingItem_setChecked(stored, itemId, readOk, writeOk) ==
    LET items == getShoppingList(stored, readOk)
        found == {i \in 1..Len(items) : items[i].id = itemId}
    IN  IF found = {} \/ ~writeOk THEN stored
        ELSE [items EXCEPT ![Min(found)].checked = TRUE]

\* toggleShoppingItem(itemId): findIndex, invert, saveShoppingList; a
\* failed read is an empty list, a failed write is swallowed.
toggleShoppingItem(stored, itemId, readOk, writeOk) ==
    LET items == getShoppingList(stored, readOk)
        found == {i \in 1..Len(items) : items[i].id = itemId}
    IN  IF found = {} \/ ~writeOk THEN stored
        ELSE [items EXCEPT ![Min(found)].checked = ~@]

InitToggle ==
    /\ NothingGenerated
    /\ OtherIdle
    /\ guest = NoGuest
    /\ apiKey = "valid-api-key"
    /\ shoppingList \in ToggleLists

\* useShoppingList.toggleItem(itemId)
ToggleItem ==
    /\ calls < MaxToggles
    /\ calls' = calls + 1
    /\ \E itemId \in ToggleIds, readOk \in BOOLEAN, writeOk \in BOOLEAN :
        LET failed == ~readOk \/ (~writeOk /\ \E i \in 1..Len(shoppingList) :
                                                shoppingList[i].id = itemId)
        IN  /\ failed => faults < MaxFaults
            /\ faults' = IF failed THEN faults + 1 ELSE faults
            /\ shoppingList' = toggleShoppingItem(shoppingList, itemId,
                                                  readOk, writeOk)
            /\ arg' = itemId
    /\ threw' = FALSE
    /\ op' = "toggle"
    /\ UNCHANGED <<otherVars, tz, now, expiryVars, inventoryVars, request,
                   result, history, savedRecipes, nextId, stats,
                   storedProducts, screenProducts, loaded, selectedIds,
                   toggled, servings, apiKey, isGenerating, sent, alert,
                   navigated, taps, parts, parsed, guest, menu, pendingAdds,
                   ownItems, presence, screens>>

NextToggle == ToggleItem

SpecToggle == InitToggle /\ [][NextToggle]_vars

\* after is before with the flag of the first entry of that id inverted,
\* or before itself when no entry has that id.
ToggledOnly(before, after, itemId) ==
    LET found == {i \in 1..Len(before) : before[i].id = itemId}
    IN  IF found = {} THEN after = before
        ELSE /\ Len(after) = Len(before)
             /\ \A i \in 1..Len(before) :
                    after[i] = IF i = Min(found)
                               THEN [before[i] EXCEPT !.checked = ~before[i].checked]
                               ELSE before[i]

\* Two toggles of the same id, their storage calls succeeding, give the
\* list back.
ToggleTwiceRestores ==
    \A itemId \in ToggleIds :
        toggleShoppingItem(toggleShoppingItem(shoppingList, itemId, TRUE, TRUE),
                           itemId, TRUE, TRUE) = shoppingList

----------------------------------------------------------------------------
(* SpecFailure: the generation screen under every way the request can    *)
(* fail, and under an answer that succeeds.                                *)

\* No transport, a non-success status, an empty text, prose only, braces
\* that do not parse, and a recipe.
FailureResponses ==
    {NetworkError, HttpError, HttpOk(<<>>, 0), HttpOk(<<"w">>, 0),
     HttpOk(<<"{", "w", "}">>, 0), HttpOk(<<"{", "m", "}">>, 20)}

FinishGenerateOrFail == FinishGenerateWith(FailureResponses)

NextFailure ==
    \/ LoadProductsDone
    \/ GenerateUnconfigured
    \/ StartGenerate
    \/ FinishGenerateOrFail

SpecFailure == InitScreen /\ [][NextFailure]_vars

\* A step in which a generation fails: refused for want of a configured
\* key, or rejected by generateRecipeWithGemini.
GenerationFailed(o, r) ==
    \/ o = "generateUnconfigured"
    \/ o = "finishGenerate" /\ r.kind = "error"

\* C26: a generation that fails shows the user a message, leaves the
\* history, the saved recipes and the statistics as they were, sends no
\* further request, and ends with the generating flag false.
C26_FailureReported ==
    [][GenerationFailed(op', result') =>
        /\ alert' # "none"
        /\ op' = "finishGenerate" => alert' = result'.message
        /\ history' = history
        /\ savedRecipes' = savedRecipes
        /\ stats' = stats
        /\ request' = request
        /\ ~navigated'
        /\ ~isGenerating']_vars

\* the retry after a rejected generation was rejected as well, the answer
\* not parsing
C26_Witness ==
    /\ op = "finishGenerate"
    /\ result = Failure("SyntaxError")
    /\ alert = "SyntaxError"
    /\ calls = 2
    /\ ~isGenerating
    /\ history = <<>>
----------------------------------------------------------------------------
(* SpecKey: the credential provider over saves of a key in the settings  *)
(* and restarts of the application.                                        *)

\* getBuiltInApiKey: the environment's key whatever its length, or none.
BuiltInKeys == {"", "short-key"}

\* loadApiKey: the stored key when it is longer than ten characters,
\* otherwise (and when the read fails) the built-in key.
loadApiKey(stored, builtIn, readOk) ==
    IF readOk /\ stored # "" /\ KeyLength(stored) > 10 THEN stored ELSE builtIn

InitKey ==
    /\ NothingGenerated
    /\ shoppingList = <<>>
    /\ guest = NoGuest
    /\ mealPlan = NoMealPlan
    /\ form = NoForm
    /\ builtInKey \in BuiltInKeys
    /\ storedKey \in {"", "ten-chars!", "valid-api-key"}
    /\ apiKey = loadApiKey(storedKey, builtInKey, TRUE)

\* The application starts again: ApiKeyProvider mounts with the built-in
\* key and loadApiKey runs.
Restart ==
    /\ \E readOk \in BOOLEAN :
        apiKey' = loadApiKey(storedKey, builtInKey, readOk)
    /\ threw' = FALSE
    /\ op' = "restart"
    /\ UNCHANGED <<otherVars, tz, now, expiryVars, inventoryVars, request,
                   result, history, savedRecipes, arg, nextId, calls, stats,
                   storedProducts, screenProducts, loaded, selectedIds,
                   toggled, servings, isGenerating, sent, alert, navigated,
                   taps, faults, parts, parsed, guestVars, presence, screens>>

\* SettingsScreen.handleSaveKey: the trimmed input is refused below ten
\* characters, otherwise handed to setApiKey; the outcome is alerted.
handleSaveKey ==
    /\ taps < MaxTaps
    /\ taps' = taps + 1
    /\ \E key \in EnteredKeys, writeOk \in BOOLEAN :
        IF key = "" \/ KeyLength(key) < 10
        THEN /\ alert' = "invalid key"
             /\ UNCHANGED <<apiKey, storedKey>>
        ELSE IF ~writeOk
        THEN /\ alert' = "key not saved"
             /\ UNCHANGED <<apiKey, storedKey>>
        ELSE /\ alert' = "key saved"
             /\ storedKey' = key
             /\ apiKey' = key
    /\ threw' = FALSE
    /\ op' = "saveKey"
    /\ UNCHANGED <<mealPlan, builtInKey, form, tz, now, expiryVars,
                   inventoryVars, request, result, history, savedRecipes, arg,
                   nextId, calls, stats, storedProducts, screenProducts,
                   loaded, selectedIds, toggled, servings, isGenerating, sent,
                   navigated, faults, parts, parsed, guestVars, presence,
                   screens>>

NextKey ==
    \/ setApiKey
    \/ handleSaveKey
    \/ Restart

SpecKey == InitKey /\ [][NextKey]_vars

\* C28: once setApiKey has accepted a key, isConfigured is true, and
\* loadApiKey adopts that same key at the next start.
C28_AcceptedKeyConfigured ==
    [][((op' = "setApiKey" /\ ~threw')
            \/ (op' = "saveKey" /\ alert' = "key saved")) =>
        /\ isConfigured(apiKey')
        /\ loadApiKey(storedKey', builtInKey', TRUE) = apiKey']_vars
----------------------------------------------------------------------------
(* SpecEdit: AddProductScreen opened on a stored product and saved.       *)

EditCategories == {"dairy", "meat"}

\* Days the user may type into the field instead of the initial value.
TypedDays == {0, 3}

\* updateProduct(productId, { ..., expiryDate }): nothing is written when
\* the read fails or finds no such product; a failed write is swallowed.
updateProduct(stored, productId, newExpiry, readOk, writeOk) ==
    LET ps == getProducts(stored, readOk)
        found == {i \in 1..Len(ps) : ps[i].id = productId}
    IN  IF found = {} \/ ~writeOk THEN stored
        ELSE [ps EXCEPT ![Min(found)].expiryDate = newExpiry]

\* The initial value of the expiry-days field: Math.ceil of the time left
\* in days, written as a decimal string (read back by parseInt as the same
\* integer, -0 as 0).
initialExpiryDays(expiry, t) == Ceil(expiry - t, HoursPerDay)

\* Stored expiry dates: yesterday, today, tomorrow and in three days, at
\* each time of day.
EditExpiries == {HoursPerDay * d + h : d \in {-1, 0, 1, 3}, h \in TimesOfDay}

InitEdit ==
    /\ StorageIdle
    /\ ExpiryIdle
    /\ InventoryIdle
    /\ GuestIdle
    /\ OtherIdle
    /\ tz \in ListZones
    /\ now \in NowInstants
    /\ op = "mount"
    /\ \E category \in EditCategories, expiry \in EditExpiries :
        storedProducts = <<[id |-> 1, name |-> "milk", category |-> category,
                            expiryDate |-> expiry]>>
    /\ screenProducts = <<>>
    /\ loaded = FALSE
    /\ selectedIds = {}
    /\ toggled = FALSE
    /\ servings = DefaultServings
    /\ apiKey = "valid-api-key"
    /\ isGenerating = FALSE
    /\ sent = <<>>
    /\ alert = "none"
    /\ navigated = FALSE
    /\ taps = 0
    /\ faults = 0
    /\ parts = NoParts
    /\ parsed = NoParsed
    /\ presence = "focused"
    /\ screens = NoScreens

\* AddProductScreen mounts with route.params.product.
OpenEdit ==
    /\ form = NoForm
    /\ calls < MaxCalls
    /\ calls' = calls + 1
    /\ \E i \in 1..Len(storedProducts) :
        form' = [kind |-> "edit",
                 id |-> storedProducts[i].id,
                 category |-> storedProducts[i].category,
                 expiryDays |-> initialExpiryDays(storedProducts[i].expiryDate, now),
                 touched |-> FALSE]
    /\ op' = "openEdit"
    /\ UNCHANGED <<mealPlan, storedKey, builtInKey, tz, now, expiryVars,
                   inventoryVars, request, result, history, savedRecipes, arg,
                   threw, nextId, stats, screenVars, parts, parsed, guestVars,
                   presence, screens>>

\* The user types another number of days.
TypeExpiryDays ==
    /\ form # NoForm
    /\ ~form.touched
    /\ \E d \in TypedDays :
        form' = [form EXCEPT !.expiryDays = d, !.touched = TRUE]
    /\ op' = "typeDays"
    /\ UNCHANGED <<mealPlan, storedKey, builtInKey, tz, now, expiryVars,
                   inventoryVars, request, result, storageVars, screenVars,
                   parts, parsed, guestVars, presence, screens>>

\* AddProductScreen.handleSave on an existing product: the days of the
\* field, or the category's default when they are 0 or not a number, are
\* counted from now; the product is updated and the screen closed.
AddProductScreen_handleSave ==
    /\ form # NoForm
    /\ \E readOk \in BOOLEAN, writeOk \in BOOLEAN :
        LET addedDays == IF form.expiryDays # 0 THEN form.expiryDays
                         ELSE getDefaultExpiryDays(Str(form.category))
            expiry == addDaysToDate(tz, now, addedDays).at
            failed == ~readOk \/ ~writeOk
        IN  /\ failed => faults < MaxFaults
            /\ faults' = IF failed THEN faults + 1 ELSE faults
            /\ storedProducts' = updateProduct(storedProducts, form.id,
                                               expiry, readOk, writeOk)
    /\ arg' = form.id
    /\ form' = NoForm
    /\ op' = IF form.touched THEN "saveEdited" ELSE "saveUntouched"
    /\ UNCHANGED <<mealPlan, storedKey, builtInKey, tz, now, expiryVars,
                   inventoryVars, request, result, history, savedRecipes,
                   threw, nextId, calls, stats, screenProducts, loaded,
                   selectedIds, toggled, servings, apiKey, isGenerating, sent,
                   alert, navigated, taps, parts, parsed, guestVars, presence,
                   screens>>

NextEdit ==
    \/ OpenEdit
    \/ TypeExpiryDays
    \/ AddProductScreen_handleSave

SpecEdit == InitEdit /\ [][NextEdit]_vars

\* C29: a product saved from the edit form with the expiry-days field
\* untouched has the same getDaysUntilExpiry as before.
C29_UntouchedEditKeepsDays ==
    [][op' = "saveUntouched" =>
        \A i \in 1..Len(storedProducts) :
            getDaysUntilExpiry(tz, storedProducts'[i].expiryDate, now)
                = getDaysUntilExpiry(tz, storedProducts[i].expiryDate, now)]_vars
----------------------------------------------------------------------------
(* SpecAdd: products and shopping items added one call after the other, *)
(* each call's read and write of the storage succeeding or failing.        *)

MaxAdds == 3        \* addProduct / addProducts / addShoppingItem calls

\* addProduct(product): getProducts, push, saveProducts.
addProduct(stored, product, readOk, writeOk) ==
    IF writeOk THEN Append(getProducts(stored, readOk), product) ELSE stored

\* useProducts.addProducts(newProducts): saveProducts([...current, ...new]).
addProducts(stored, newProducts, readOk, writeOk) ==
    IF writeOk THEN getProducts(stored, readOk) \o newProducts ELSE stored

\* addShoppingItem(item): getShoppingList, push, saveShoppingList.
addShoppingItem(stored, item, readOk, writeOk) ==
    IF writeOk THEN Append(getShoppingList(stored, readOk), item) ELSE stored

NewProduct(id, t) ==
    [id |-> id, name |-> NameOf(id), expiryDate |-> t + HoursPerDay * WarningDays]

InitAdd ==
    /\ GuestScreenIdle
    /\ guest = NoGuest
    /\ apiKey = "valid-api-key"

\* AddProductScreen.handleSave for a new product.
AddProduct ==
    /\ calls < MaxAdds
    /\ calls' = calls + 1
    /\ \E readOk \in BOOLEAN, writeOk \in BOOLEAN :
        storedProducts' = addProduct(storedProducts, NewProduct(nextId, now),
                                     readOk, writeOk)
    /\ nextId' = nextId + 1
    /\ op' = "addProduct"
    /\ UNCHANGED <<otherVars, tz, now, expiryVars, inventoryVars, request,
                   result, history, savedRecipes, arg, threw, stats,
                   screenProducts, loaded, selectedIds, toggled, servings,
                   apiKey, isGenerating, sent, alert, navigated, taps, faults,
                   parts, parsed, guestVars, presence, screens>>

\* ScanResultScreen: addProducts(selectedProducts), two products scanned.
AddProducts ==
    /\ calls < MaxAdds
    /\ calls' = calls + 1
    /\ \E readOk \in BOOLEAN, writeOk \in BOOLEAN :
        storedProducts' = addProducts(storedProducts,
                                <<NewProduct(nextId, now),
                                  NewProduct(nextId + 1, now)>>,
                                readOk, writeOk)
    /\ nextId' = nextId + 2
    /\ op' = "addProducts"
    /\ UNCHANGED <<otherVars, tz, now, expiryVars, inventoryVars, request,
                   result, history, savedRecipes, arg, threw, stats,
                   screenProducts, loaded, selectedIds, toggled, servings,
                   apiKey, isGenerating, sent, alert, navigated, taps, faults,
                   parts, parsed, guestVars, presence, screens>>

\* AddShoppingItemScreen.handleSave, awaited: one addShoppingItem.
AddShoppingItem ==
    /\ calls < MaxAdds
    /\ calls' = calls + 1
    /\ \E readOk \in BOOLEAN, writeOk \in BOOLEAN :
        shoppingList' = addShoppingItem(shoppingList,
                            [id |-> nextId, name |-> "salt", checked |-> FALSE],
                            readOk, writeOk)
    /\ nextId' = nextId + 1
    /\ op' = "addShoppingItem"
    /\ UNCHANGED <<otherVars, tz, now, expiryVars, inventoryVars, request,
                   result, history, savedRecipes, arg, threw, stats,
                   screenVars, parts, parsed, guest, menu, pendingAdds,
                   ownItems, presence, screens>>

NextAdd ==
    \/ AddProduct
    \/ AddProducts
    \/ AddShoppingItem

SpecAdd == InitAdd /\ [][NextAdd]_vars

\* Every entry of before is an entry of after.
AllKept(before, after) ==
    \A i \in 1..Len(before) : \E k \in 1..Len(after) : after[k] = before[i]

\* C30: addProduct, addProducts and addShoppingItem lose no stored entry,
\* a failed read of the storage included.
C30_AddLosesNothing ==
    [][op' \in {"addProduct", "addProducts", "addShoppingItem"} =>
        /\ AllKept(storedProducts, storedProducts')
        /\ AllKept(shoppingList, shoppingList')]_vars

====
